---------------------------- MODULE Spec2Model ----------------------------
(***************************************************************************)
(* DOM Chronicle: the content-script orchestrator (src/content.ts), its    *)
(* two capturers (lib/capture/mutation-observer.ts, event-listener.ts),    *)
(* the redaction engine (RedactionEngine, in lib/redaction/patterns.ts),   *)
(* the session manager (startSession, stopSession, storeEvents: in         *)
(* lib/utils/debounce.ts from line 81 on) and the background service       *)
(* worker (background.ts: unnamed/part_002); beside the pipeline, the      *)
(* attribute sanitizer (lib/redaction/sanitizer.ts), the reproduction      *)
(* steps of the exporter (MarkdownExporter, in lib/storage/indexeddb.ts)   *)
(* and the line diff (lib/export/templates.ts). Further specifications     *)
(* follow single parts on their own: the timeline of the export and its    *)
(* times, the auto-stop check, the debounced and throttled listeners, the  *)
(* batch timer and the parent context of the mutation capture, the kinds   *)
(* of mutation records, the navigation listeners, and the session manager  *)
(* await by await.                                                         *)
(*                                                                         *)
(* Strings are sequences of symbols, so that prefix, containment and       *)
(* replacement are computed and not assumed.                               *)
(***************************************************************************)
EXTENDS Integers, Sequences, FiniteSets, TLC

\* ------------------------------------------------------------------ bounds
\* LIMITS.MAX_EVENTS_IN_MEMORY is 500 and LIMITS.MAX_EVENTS_PER_SESSION is
\* 50000 in constants.ts; the model keeps their roles and scales the values.
MAX_EVENTS_IN_MEMORY == 2
MAX_EVENTS_PER_SESSION == 3
\* number of event ids a behaviour may use: one per page load of a started
\* session and one per notification (click, input, mutation record)
MaxEvents == 4
\* the flush interval ticks only while fewer than this many STORE_EVENTS
\* messages are unanswered
MaxInFlight == 1

\* LIMITS.INPUT_DEBOUNCE_MS is 100 and LIMITS.SCROLL_THROTTLE_MS is 200 in
\* constants.ts; the model counts time in ticks and keeps their order
INPUT_DEBOUNCE_MS == 2
SCROLL_THROTTLE_MS == 3
\* number of ticks the clock runs on after the page has loaded
Horizon == 6
\* Date.now() when the page has loaded: far more than either window
StartTime == INPUT_DEBOUNCE_MS + SCROLL_THROTTLE_MS + 1
MaxTime == StartTime + Horizon
\* the window of batchMutations is 50 ms (mutation-observer.ts:93), in ticks
BATCH_WINDOW_MS == 2

Null == "null"

\* the child nodes of the observed parent element when the page has loaded
InitialChildren == << "a", "b" >>

\* ----------------------------------------------------------------- strings
\* does needle occur in text at position i (1-based)?
StartsWithAt(text, needle, i) ==
  /\ i + Len(needle) - 1 <= Len(text)
  /\ \A k \in 1..Len(needle) : text[i + k - 1] = needle[k]

\* String.prototype.startsWith
StartsWith(text, needle) == StartsWithAt(text, needle, 1)

\* String.prototype.includes
Includes(text, needle) ==
  \E i \in 1..(Len(text) + 1) : StartsWithAt(text, needle, i)

\* String.prototype.endsWith
EndsWith(text, needle) ==
  /\ Len(needle) <= Len(text)
  /\ StartsWithAt(text, needle, Len(text) - Len(needle) + 1)

\* the 'i' flag of the compiled regexes: the symbols that differ in case only
Fold(sym) == IF sym = "SECRET" THEN "secret" ELSE sym

\* does the literal `needle' match text at position i, case ignored?
MatchesAt(text, needle, i) ==
  /\ i + Len(needle) - 1 <= Len(text)
  /\ \A k \in 1..Len(needle) : Fold(text[i + k - 1]) = Fold(needle[k])

RECURSIVE ReplaceFrom(_, _, _, _)
\* String.prototype.replace with a global, case-insensitive regex whose
\* language is the one literal `needle': leftmost matches, scanning resumes
\* after each match.
ReplaceFrom(text, needle, repl, i) ==
  IF i > Len(text) THEN << >>
  ELSE IF Len(needle) > 0 /\ MatchesAt(text, needle, i)
       THEN repl \o ReplaceFrom(text, needle, repl, i + Len(needle))
       ELSE << text[i] >> \o ReplaceFrom(text, needle, repl, i + 1)

RECURSIVE ReplaceAlternatives(_, _, _)
\* A regex that is an alternation of literals, over one text: the text is
\* rewritten once per alternative, which is what a global replace does when
\* no alternative overlaps another.
ReplaceAlternatives(text, alts, repl) ==
  IF alts = << >> THEN text
  ELSE ReplaceAlternatives(ReplaceFrom(text, Head(alts), repl, 1), Tail(alts), repl)


\* ------------------------------------------------------- redaction rules
\* A RedactionRule (types.ts).  `pattern' is held parsed, by rule kind:
\*   input-type : the input type, a string
\*   regex      : [valid, alts]: whether new RegExp accepts the pattern, and the
\*                literals of its language over the model's symbols
\*   selector   : the comma-separated selector patterns, each with its text and
\*                the groups of the matcher's /\[(\w+)([*^$]?)="([^"]+)"\]/
\*   attribute  : the comma-separated attribute names
Rule(id, type, pattern, replacement, enabled) ==
  [id |-> id, type |-> type, pattern |-> pattern,
   replacement |-> replacement, enabled |-> enabled]

Regex(alts) == [valid |-> TRUE, alts |-> alts]

SelectorPattern(tag, attr, op, value) ==
  [text |-> << tag, "[", attr, op, "=", value, "]" >>,
   hasAttr |-> TRUE, attr |-> attr, op |-> op, value |-> << value >>]

\* symbols that stand for substrings of the shapes the default regexes accept
EmailSym == "user@example.com"
PhoneSym == "555-123-4567"
SsnSym == "123-45-6789"
CardSym == "4111-1111-1111-1111"
IpSym == "10.0.0.1"

DEFAULT_REDACTION_RULES ==
  << Rule("input-password", "input-type", "password", << "[PASSWORD]" >>, TRUE),
     Rule("input-hidden", "input-type", "hidden", << "[HIDDEN]" >>, TRUE),
     Rule("regex-email", "regex", Regex(<< << EmailSym >> >>), << "[EMAIL]" >>, TRUE),
     Rule("regex-phone", "regex", Regex(<< << PhoneSym >> >>), << "[PHONE]" >>, TRUE),
     Rule("regex-ssn", "regex", Regex(<< << SsnSym >> >>), << "[SSN]" >>, TRUE),
     Rule("regex-credit-card", "regex", Regex(<< << CardSym >> >>), << "[CARD]" >>, TRUE),
     Rule("regex-ip-address", "regex", Regex(<< << IpSym >> >>), << "[IP]" >>, FALSE),
     Rule("selector-cvv", "selector",
          << SelectorPattern("input", "name", "*", "cvv"),
             SelectorPattern("input", "name", "*", "cvc"),
             SelectorPattern("input", "autocomplete", "", "cc-csc") >>,
          << "[CVV]" >>, TRUE),
     Rule("attr-auth-token", "attribute",
          << "data-token", "data-auth", "data-session", "data-csrf" >>,
          << "[TOKEN]" >>, TRUE) >>

\* RedactionEngine.loadRules: the rule list, and the ids of the compiled regexes
LoadRulesList(customRules) == DEFAULT_REDACTION_RULES \o customRules

\* loadRules without the try/catch around new RegExp: the loop ends at the
\* first enabled regex rule whose pattern does not compile
LoadRulesCompiledNoCatch(customRules) ==
  LET rs == LoadRulesList(customRules)
      bad == { j \in 1..Len(rs) :
                 rs[j].type = "regex" /\ rs[j].enabled /\ ~rs[j].pattern.valid }
  IN { rs[i].id : i \in { j \in 1..Len(rs) :
         /\ rs[j].type = "regex" /\ rs[j].enabled /\ rs[j].pattern.valid
         /\ \A b \in bad : j < b } }

LoadRulesCompiled(customRules) ==
  LET rs == LoadRulesList(customRules)
  IN { rs[i].id : i \in { j \in 1..Len(rs) :
         rs[j].type = "regex" /\ rs[j].enabled /\ rs[j].pattern.valid } }

\* the pattern compiled under a rule id: Map.set keeps the last rule of that id
CompiledPattern(rs, id) ==
  LET js == { j \in 1..Len(rs) :
                rs[j].id = id /\ rs[j].type = "regex" /\ rs[j].enabled
                /\ rs[j].pattern.valid }
      last == CHOOSE j \in js : \A k \in js : k <= j
  IN rs[last].pattern

\* redactText with result = text.replace(...): every rule rewrites the
\* original text, the last applicable rule's rewriting is returned
RedactTextOfOriginal(rs, compiled, text, i) ==
  LET js == { j \in i..Len(rs) :
                rs[j].enabled /\ rs[j].type = "regex" /\ rs[j].id \in compiled }
  IN IF js = {} THEN text
     ELSE LET last == CHOOSE j \in js : \A k \in js : k <= j
          IN ReplaceAlternatives(text, CompiledPattern(rs, rs[last].id).alts,
                                 rs[last].replacement)

RECURSIVE RedactTextFrom(_, _, _, _)
RedactTextFrom(rs, compiled, text, i) ==
  IF i > Len(rs) THEN text
  ELSE IF ~rs[i].enabled \/ rs[i].type # "regex" \/ rs[i].id \notin compiled
       THEN RedactTextFrom(rs, compiled, text, i + 1)
       ELSE RedactTextFrom(rs, compiled,
              ReplaceAlternatives(text, CompiledPattern(rs, rs[i].id).alts,
                                  rs[i].replacement),
              i + 1)

\* RedactionEngine.redactText
RedactText(rs, compiled, text) == RedactTextFrom(rs, compiled, text, 1)

\* RedactionEngine.matchAttributeValue
MatchAttributeValue(actual, op, expected) ==
  CASE op = "*" -> Includes(actual, expected)
    [] op = "^" -> StartsWith(actual, expected)
    [] op = "$" -> EndsWith(actual, expected)
    [] OTHER -> actual = expected

\* RedactionEngine.matchesSelectorPattern
MatchesSelectorPattern(target, pattern) ==
  IF StartsWith(pattern.text, target.tagName) /\ pattern.hasAttr
  THEN IF pattern.attr = "id" /\ target.id # << >>
       THEN MatchAttributeValue(target.id, pattern.op, pattern.value)
       ELSE IF pattern.attr = "autocomplete"
                 /\ Includes(target.cssSelector, pattern.value)
            THEN TRUE
            ELSE pattern.attr = "name" /\ Includes(target.cssSelector, pattern.value)
  ELSE FALSE

SelectorRuleMatches(rule, target) ==
  \E k \in 1..Len(rule.pattern) : MatchesSelectorPattern(target, rule.pattern[k])

\* RedactionEngine.shouldRedactInputType
ShouldRedactInputType(rs, target, inputType) ==
  \E i \in 1..Len(rs) :
    /\ rs[i].enabled
    /\ \/ rs[i].type = "input-type" /\ rs[i].pattern = inputType
       \/ /\ rs[i].type = "selector"
          /\ target.cssSelector # << >>
          /\ SelectorRuleMatches(rs[i], target)

\* the rules getReplacementForInputType returns at
ReplacementRuleAt(rs, target, inputType, i) ==
  /\ rs[i].enabled
  /\ \/ rs[i].type = "input-type" /\ rs[i].pattern = inputType
     \/ rs[i].type = "selector" /\ SelectorRuleMatches(rs[i], target)

\* RedactionEngine.getReplacementForInputType
GetReplacementForInputType(rs, target, inputType) ==
  LET hits == { i \in 1..Len(rs) : ReplacementRuleAt(rs, target, inputType, i) }
  IN IF hits = {} THEN << "[REDACTED]" >>
     ELSE rs[CHOOSE i \in hits : \A j \in hits : i <= j].replacement

\* the enabled attribute rules whose pattern lists the attribute `key'
AttributeRuleHits(rs, key) ==
  { i \in 1..Len(rs) :
      /\ rs[i].enabled /\ rs[i].type = "attribute"
      /\ \E k \in 1..Len(rs[i].pattern) : rs[i].pattern[k] = key }

\* RedactionEngine.redactAttributes
RedactAttributes(rs, compiled, attrs) ==
  [k \in 1..Len(attrs) |->
     LET hits == AttributeRuleHits(rs, attrs[k].key)
     IN IF hits # {}
        THEN [key |-> attrs[k].key,
              value |-> rs[CHOOSE i \in hits : \A j \in hits : i <= j].replacement]
        ELSE [key |-> attrs[k].key,
              value |-> RedactText(rs, compiled, attrs[k].value)]]

\* RedactionEngine.process:196-203, the snapshot of an event
RedactSnapshot(rs, compiled, event) ==
  IF event.domSnapshot = << >> THEN event
  ELSE [event EXCEPT
          !.domSnapshot =
             << [html |-> RedactText(rs, compiled, @[1].html),
                 text |-> RedactText(rs, compiled, @[1].text),
                 attributes |-> RedactAttributes(rs, compiled, @[1].attributes)] >>]

\* process without the input-type branch: every input value goes through
\* the regex cascade
ProcessCascadeOnly(rs, compiled, event) ==
  LET labelled ==
        IF event.target.label # << >>
        THEN [event EXCEPT !.target.label = RedactText(rs, compiled, @)]
        ELSE event
      payloaded ==
        IF event.type = "user:input"
        THEN [labelled EXCEPT !.payload.value = RedactText(rs, compiled, @)]
        ELSE labelled
  IN [RedactSnapshot(rs, compiled, payloaded) EXCEPT !.processed = TRUE]

\* RedactionEngine.process.  `processed' is a history field: it records that
\* the event is a value returned by process.
Process(rs, compiled, event) ==
  LET labelled ==
        IF event.target.label # << >>
        THEN [event EXCEPT !.target.label = RedactText(rs, compiled, @)]
        ELSE event
      payloaded ==
        IF event.type = "user:input"
        THEN IF ShouldRedactInputType(rs, event.target, event.payload.inputType)
             THEN [labelled EXCEPT !.payload.value =
                     GetReplacementForInputType(rs, event.target,
                                                event.payload.inputType)]
             ELSE [labelled EXCEPT !.payload.value = RedactText(rs, compiled, @)]
        ELSE labelled
  IN [RedactSnapshot(rs, compiled, payloaded) EXCEPT !.processed = TRUE]


\* ------------------------------------------------------------------ events
\* ElementDescriptor (types.ts), the fields the pipeline reads
Descriptor(tagName, id, cssSelector, label) ==
  [tagName |-> << tagName >>, id |-> id, cssSelector |-> cssSelector, label |-> label]

\* EventPayload (types.ts): kind, for the input kind its type and value, and
\* for the mutation kind the fragments of the added and removed nodes
Payload(kind, inputType, value) ==
  [kind |-> kind, inputType |-> inputType, value |-> value,
   addedNodes |-> << >>, removedNodes |-> << >>]

\* DOMEvent (types.ts)
DOMEvent(id, sessionId, sequence, type, target, payload) ==
  [id |-> id, sessionId |-> sessionId, sequence |-> sequence, type |-> type,
   target |-> target, payload |-> payload, domSnapshot |-> << >>,
   processed |-> FALSE]

\* DOMFragment (types.ts), the fields process reads; attributes as the
\* entries of the object, in order
Fragment(html, text, attributes) ==
  [html |-> html, text |-> text, attributes |-> attributes]

\* the interaction notifications of a behaviour: an element and its state
ClickSample ==
  [target |-> Descriptor("button", << "#", "send" >>, << "#", "send" >>,
                         << "Mail", EmailSym >>),
   fragment |-> Fragment(<< "<button>", "Mail", EmailSym, "</button>" >>,
                         << "Mail", EmailSym >>,
                         << [key |-> "data-token", value |-> << "t0k3n" >>],
                            [key |-> "title", value |-> << PhoneSym >>] >>)]

InputSamples ==
  { [target |-> Descriptor("input", << "mail" >>, << "#", "mail" >>, << >>),
     fragment |-> Fragment(<< "<input>" >>, << >>, << >>),
     inputType |-> "text", value |-> << EmailSym >>] }

\* MutationRecord: type, sizes of addedNodes/removedNodes, the target element's
\* tag (the parent element's for a text node), and what captureFragment
\* gives for the first ten added and removed elements
MutationSamples ==
  { [type |-> "childList", added |-> 1, removed |-> 0, tag |-> "form",
     addedFragments |->
       << Fragment(<< "<li>", EmailSym, "</li>" >>, << EmailSym >>,
                   << [key |-> "onclick", value |-> << "pay()" >>] >>) >>,
     removedFragments |-> << >>],
    [type |-> "attributes", added |-> 0, removed |-> 0, tag |-> "script",
     addedFragments |-> << >>, removedFragments |-> << >>] }

\* background.ts loadSessionConfig, the redactionRules it builds from the
\* stored disabledDefaultRules and customRedactionRules
SessionRules(disabledDefaults, customRules) ==
  [i \in 1..Len(DEFAULT_REDACTION_RULES) |->
     [DEFAULT_REDACTION_RULES[i] EXCEPT
        !.enabled = @ /\ DEFAULT_REDACTION_RULES[i].id \notin disabledDefaults]]
  \o customRules

\* the custom rules of the settings a behaviour may be started with
WordRule ==
  Rule("custom-word", "regex", Regex(<< << "hunter2" >> >>), << "[WORD]" >>, TRUE)
EmailTypeRule ==
  Rule("custom-email-type", "input-type", "email", << "[MAILFIELD]" >>, TRUE)
PinSelectorRule ==
  Rule("custom-pin", "selector", << SelectorPattern("input", "id", "^", "pin") >>,
       << "[PIN]" >>, TRUE)
BracketRule ==
  Rule("custom-bracket", "regex", Regex(<< << "[PASSWORD]" >> >>), << "***" >>, TRUE)

\* SessionConfig (types.ts) by name
Configs ==
  [standard |-> [redactionRules |-> SessionRules({}, << WordRule >>)]]

ConfigNames == DOMAIN Configs

\* ------------------------------------------------------------------- state
VARIABLES
  \* DOMChronicle (content.ts)
  isRecording, sessionId, config, sequence, eventBuffer, flushInterval,
  \* RedactionEngine
  rules, compiledRegex,
  \* MutationCapture: observer set, sessionId, sequence, batchBuffer, and
  \* batchTimeout: "null", "pending" (a live timer) or "cleared" (the handle of
  \* a timer that was cancelled or is running its callback)
  mcObserver, mcSessionId, mcSequence, batchBuffer, batchTimeout,
  \* the orchestrator's EventCapture (by the session it was made for) and every
  \* EventCapture made so far: sessionId, sequence, listeners attached,
  \* debounce timer (<< >> or the pending call)
  eventCapture, captures,
  \* STORE_EVENTS messages sent and not yet answered, each with the stop()
  \* call that awaits it ("none", "local": from checkRateLimit, "bg": from a
  \* STOP_RECORDING message whose sender awaits the reply)
  inFlight,
  \* session manager and background: currentSession, activeTabId, the sessions
  \* store, the events store
  currentSession, activeTabId, sessions, persisted,
  \* history: the session last started, the events accepted into the outbound
  \* buffer by session, the sessions stopped by checkRateLimit, fresh ids
  recSession, accepted, ceilingStops, nextId, nextSession,
  \* two input events given to RedactionEngine.process, and what it returned
  probeIn, probeOut,
  \* the page and the closures of the listeners: the clock (Date.now(), in
  \* ticks), the value of the input field and the scroll position, the timer
  \* of debounce (<< >> for null, or when it is due and the arguments of the
  \* call), lastCall and the timer of throttle, and the history: the events
  \* the listeners emitted and the notifications they were given
  now, fieldValue, scrollY, debounceTimer, lastCall, throttleTimer, emitted,
  notified,
  \* when the pending timer of batchMutations is due, the children of the
  \* observed parent element, and the records the MutationObserver has
  \* queued for its next callback
  batchDue, parentChildren, pendingRecords,
  \* session manager: recordingState, and the calls of startSession,
  \* stopSession and storeEvents that are waiting for the database, each with
  \* the await it is at
  recordingState, calls

vars ==
  << isRecording, sessionId, config, sequence, eventBuffer, flushInterval,
     rules, compiledRegex, mcObserver, mcSessionId, mcSequence, batchBuffer,
     batchTimeout, eventCapture, captures, inFlight, currentSession,
     activeTabId, sessions, persisted, recSession, accepted, ceilingStops,
     nextId, nextSession, probeIn, probeOut, now, fieldValue, scrollY,
     debounceTimer, lastCall, throttleTimer, emitted, notified, batchDue,
     parentChildren, pendingRecords, recordingState, calls >>

managerVars == << recordingState, calls >>

domVars == << batchDue, parentChildren, pendingRecords >>

pageVars ==
  << now, fieldValue, scrollY, debounceTimer, lastCall, throttleTimer, emitted,
     notified, domVars, managerVars >>

\* the state as one value, for the operations that call one another
World ==
  [isRecording |-> isRecording, sessionId |-> sessionId, config |-> config,
   sequence |-> sequence, eventBuffer |-> eventBuffer,
   flushInterval |-> flushInterval, rules |-> rules,
   compiledRegex |-> compiledRegex, mcObserver |-> mcObserver,
   mcSessionId |-> mcSessionId, mcSequence |-> mcSequence,
   batchBuffer |-> batchBuffer, batchTimeout |-> batchTimeout,
   eventCapture |-> eventCapture, captures |-> captures, inFlight |-> inFlight,
   currentSession |-> currentSession, activeTabId |-> activeTabId,
   sessions |-> sessions, persisted |-> persisted, recSession |-> recSession,
   accepted |-> accepted, ceilingStops |-> ceilingStops]

CommitState(w) ==
  /\ isRecording' = w.isRecording
  /\ sessionId' = w.sessionId
  /\ config' = w.config
  /\ sequence' = w.sequence
  /\ eventBuffer' = w.eventBuffer
  /\ flushInterval' = w.flushInterval
  /\ rules' = w.rules
  /\ compiledRegex' = w.compiledRegex
  /\ mcObserver' = w.mcObserver
  /\ mcSessionId' = w.mcSessionId
  /\ mcSequence' = w.mcSequence
  /\ batchBuffer' = w.batchBuffer
  /\ batchTimeout' = w.batchTimeout
  /\ eventCapture' = w.eventCapture
  /\ captures' = w.captures
  /\ inFlight' = w.inFlight
  /\ currentSession' = w.currentSession
  /\ activeTabId' = w.activeTabId
  /\ sessions' = w.sessions
  /\ persisted' = w.persisted
  /\ recSession' = w.recSession
  /\ accepted' = w.accepted
  /\ ceilingStops' = w.ceilingStops

Commit(w) == CommitState(w) /\ UNCHANGED << probeIn, probeOut, pageVars >>

\* the state after the content script and the service worker have loaded
Init ==
  /\ isRecording = FALSE
  /\ sessionId = Null
  /\ config = Null
  /\ sequence = 0
  /\ eventBuffer = << >>
  /\ flushInterval = FALSE
  /\ rules = << >>
  /\ compiledRegex = {}
  /\ mcObserver = FALSE
  /\ mcSessionId = ""
  /\ mcSequence = 0
  /\ batchBuffer = << >>
  /\ batchTimeout = "null"
  /\ eventCapture = Null
  /\ captures = << >>
  /\ inFlight = {}
  /\ currentSession = Null
  /\ activeTabId = FALSE
  /\ sessions = << >>
  /\ persisted = {}
  /\ recSession = Null
  /\ accepted = << >>
  /\ ceilingStops = {}
  /\ nextId = 1
  /\ nextSession = 1
  /\ probeIn = << >>
  /\ probeOut = << >>
  /\ now = StartTime
  /\ fieldValue = << >>
  /\ scrollY = 0
  /\ debounceTimer = << >>
  /\ lastCall = 0
  /\ throttleTimer = << >>
  /\ emitted = << >>
  /\ notified = << >>
  /\ batchDue = 0
  /\ parentChildren = InitialChildren
  /\ pendingRecords = << >>
  /\ recordingState = "idle"
  /\ calls = {}


\* ------------------------------------------------- session manager (bg)
\* indexeddb.ts getEventCount: the stored events whose sessionId is `sid'
\* (the events store is keyed by event id, so it is a set)
GetEventCount(w, sid) ==
  Cardinality({ e \in w.persisted : e.sessionId = sid })

\* session-manager.ts stopSession
StopSession(w) ==
  IF w.currentSession = Null THEN w
  ELSE [w EXCEPT
          !.sessions[w.currentSession] =
             [@ EXCEPT !.endedAt = TRUE,
                       !.eventCount = GetEventCount(w, w.currentSession)],
          !.currentSession = Null]

\* background.ts handleStopRecording, after the content script has answered
StopRecordingTail(w) == [StopSession(w) EXCEPT !.activeTabId = FALSE]

\* ------------------------------------------------------ orchestrator parts
\* content.ts stop(), after its await: the session fields are cleared, and a
\* STOP_RECORDING sender gets its reply
StopEpilogue(w, caller) ==
  LET cleared == [w EXCEPT !.sessionId = Null, !.config = Null]
  IN IF caller = "bg" THEN StopRecordingTail(cleared) ELSE cleared

\* content.ts flushBuffer up to its await: the buffer is spliced empty and sent
FlushBuffer(w, caller) ==
  IF w.eventBuffer = << >> THEN w
  ELSE [w EXCEPT
          !.inFlight = @ \cup { [events |-> w.eventBuffer, caller |-> caller] },
          !.eventBuffer = << >>]

\* content.ts stopBufferFlush
StopBufferFlush(w) == [w EXCEPT !.flushInterval = FALSE]

\* event-listener.ts EventCapture.stop, and content.ts:146-147: the listeners
\* are removed; a pending debounce timer is left as it is
EventCaptureStop(w) ==
  IF w.eventCapture = Null THEN w
  ELSE [w EXCEPT !.captures[w.eventCapture].listening = FALSE,
                 !.eventCapture = Null]

\* getMutationType that looks at the removed nodes first
GetMutationTypeRemovedFirst(m) ==
  CASE m.type = "childList" /\ m.removed > 0 -> "mutation:remove"
    [] m.type = "childList" /\ m.removed = 0 /\ m.added > 0 -> "mutation:add"
    [] m.type = "attributes" -> "mutation:attribute"
    [] m.type = "characterData" -> "mutation:text"
    [] OTHER -> ""

\* mutation-observer.ts getMutationType ("" for null)
GetMutationType(m) ==
  CASE m.type = "childList" /\ m.added > 0 -> "mutation:add"
    [] m.type = "childList" /\ m.added = 0 /\ m.removed > 0 -> "mutation:remove"
    [] m.type = "attributes" -> "mutation:attribute"
    [] m.type = "characterData" -> "mutation:text"
    [] OTHER -> ""

\* mutation-observer.ts shouldIgnore
ShouldIgnore(tag) == tag \in { "script", "style", "noscript", "link", "meta" }

\* mutation-observer.ts buildPayload, the fragments
BuildPayload(mctx) ==
  [Payload("mutation", "", << >>) EXCEPT
     !.addedNodes = IF mctx.record.type = "childList" /\ mctx.record.added > 0
                    THEN mctx.record.addedFragments ELSE << >>,
     !.removedNodes = IF mctx.record.type = "childList" /\ mctx.record.removed > 0
                      THEN mctx.record.removedFragments ELSE << >>]

\* mutation-observer.ts createEvent: << >> for null, else the one event
CreateEvent(w, mctx) ==
  IF GetMutationType(mctx.record) = "" \/ ShouldIgnore(mctx.record.tag)
  THEN << >>
  ELSE << [DOMEvent(mctx.id, w.mcSessionId, w.mcSequence,
                    GetMutationType(mctx.record),
                    Descriptor(mctx.record.tag, << >>, << mctx.record.tag >>, << >>),
                    BuildPayload(mctx))
             EXCEPT !.domSnapshot =
               << Fragment(<< mctx.record.tag >>, << >>, << >>) >>] >>

RECURSIVE HandleEvent(_, _)

\* mutation-observer.ts processMutation
ProcessMutation(w, mctx) ==
  LET made == CreateEvent(w, mctx)
  IN IF made = << >> THEN w
     ELSE HandleEvent([w EXCEPT !.mcSequence = @ + 1], made[1])

RECURSIVE ProcessMutations(_, _)
\* the loop of processBatch over the mutations it spliced out
ProcessMutations(w, mutations) ==
  IF mutations = << >> THEN w
  ELSE ProcessMutations(ProcessMutation(w, Head(mutations)), Tail(mutations))

\* mutation-observer.ts processBatch
ProcessBatch(w) ==
  ProcessMutations([w EXCEPT !.batchBuffer = << >>], w.batchBuffer)

\* mutation-observer.ts MutationCapture.stop: clearTimeout leaves the handle
\* in batchTimeout
MutationCaptureStop(w) ==
  LET drained ==
        IF w.batchTimeout # "null"
        THEN ProcessBatch([w EXCEPT !.batchTimeout = "cleared"])
        ELSE w
  IN [drained EXCEPT !.mcObserver = FALSE]

\* content.ts stop(): to its await; with nothing to flush the await is over
\* before any other task runs
Stop(w, caller) ==
  IF ~w.isRecording
  THEN IF caller = "bg" THEN StopRecordingTail(w) ELSE w
  ELSE LET halted == StopBufferFlush(EventCaptureStop(MutationCaptureStop(
                       [w EXCEPT !.isRecording = FALSE])))
       IN IF halted.eventBuffer = << >> THEN StopEpilogue(halted, caller)
          ELSE FlushBuffer(halted, caller)


\* content.ts checkRateLimit: [ok, w]
CheckRateLimit(w) ==
  IF w.config = Null THEN [ok |-> FALSE, w |-> w]
  ELSE IF w.sequence >= MAX_EVENTS_PER_SESSION
       THEN [ok |-> FALSE,
             w |-> [Stop(w, "local") EXCEPT
                      !.ceilingStops = @ \cup { w.recSession }]]
       ELSE [ok |-> TRUE, w |-> w]

\* handleEvent that keeps the buffer in notification order: an event that
\* arrives after a later-observed one is put before it and takes its number
HandleEventResorting(w, event) ==
  IF ~w.isRecording \/ w.config = Null THEN w
  ELSE LET limit == CheckRateLimit(w)
       IN IF ~limit.ok THEN limit.w
          ELSE LET n == Len(w.eventBuffer)
                   late == n > 0 /\ w.eventBuffer[n].id > event.id
                   redactedEvent ==
                     [Process(w.rules, w.compiledRegex, event) EXCEPT
                        !.sequence = IF late THEN w.sequence - 1 ELSE w.sequence]
                   buffer ==
                     IF late
                     THEN SubSeq(w.eventBuffer, 1, n - 1)
                            \o << redactedEvent,
                                  [w.eventBuffer[n] EXCEPT !.sequence = w.sequence] >>
                     ELSE Append(w.eventBuffer, redactedEvent)
                   pushed ==
                     [w EXCEPT !.sequence = @ + 1,
                               !.eventBuffer = buffer,
                               !.accepted[w.recSession] = Append(@, redactedEvent)]
               IN IF Len(pushed.eventBuffer) >= MAX_EVENTS_IN_MEMORY
                  THEN FlushBuffer(pushed, "none")
                  ELSE pushed

\* handleEvent that tests the configuration only
HandleEventWhileConfigured(w, event) ==
  IF w.config = Null THEN w
  ELSE LET limit == CheckRateLimit(w)
       IN IF ~limit.ok THEN limit.w
          ELSE LET redactedEvent ==
                     [Process(w.rules, w.compiledRegex, event) EXCEPT
                        !.sequence = w.sequence]
                   pushed ==
                     [w EXCEPT !.sequence = @ + 1,
                               !.eventBuffer = Append(@, redactedEvent),
                               !.accepted[w.recSession] = Append(@, redactedEvent)]
               IN IF Len(pushed.eventBuffer) >= MAX_EVENTS_IN_MEMORY
                  THEN FlushBuffer(pushed, "none")
                  ELSE pushed

\* content.ts handleEvent
HandleEvent(w, event) ==
  IF ~w.isRecording \/ w.config = Null THEN w
  ELSE LET limit == CheckRateLimit(w)
       IN IF ~limit.ok THEN limit.w
          ELSE LET redactedEvent ==
                     [Process(w.rules, w.compiledRegex, event) EXCEPT
                        !.sequence = w.sequence]
                   pushed ==
                     [w EXCEPT !.sequence = @ + 1,
                               !.eventBuffer = Append(@, redactedEvent),
                               !.accepted[w.recSession] = Append(@, redactedEvent)]
               IN IF Len(pushed.eventBuffer) >= MAX_EVENTS_IN_MEMORY
                  THEN FlushBuffer(pushed, "none")
                  ELSE pushed

\* captureInitialState that numbers the page-load event and leaves the
\* counter where it was
CaptureInitialStateNoIncrement(w, pageId) ==
  IF w.sessionId = Null THEN w
  ELSE LET event ==
             DOMEvent(pageId, w.sessionId, w.sequence, "user:navigation",
                      Descriptor("document", << >>, << ":root" >>, << >>),
                      Payload("navigation", "", << >>))
       IN [w EXCEPT !.eventBuffer = Append(@, event),
                    !.accepted[w.recSession] = Append(@, event)]

\* content.ts captureInitialState; `pageId' is the event's id
CaptureInitialState(w, pageId) ==
  IF w.sessionId = Null THEN w
  ELSE LET event ==
             DOMEvent(pageId, w.sessionId, w.sequence, "user:navigation",
                      Descriptor("document", << >>, << ":root" >>, << >>),
                      Payload("navigation", "", << >>))
       IN [w EXCEPT !.sequence = @ + 1,
                    !.eventBuffer = Append(@, event),
                    !.accepted[w.recSession] = Append(@, event)]

\* mutation-observer.ts MutationCapture.start
MutationCaptureStart(w, sid) ==
  [w EXCEPT !.mcSessionId = sid, !.mcSequence = 0, !.mcObserver = TRUE]

\* content.ts:121-125: a new EventCapture, started
EventCaptureStart(w, sid) ==
  [w EXCEPT
     !.eventCapture = sid,
     !.captures = (sid :> [sessionId |-> sid, sequence |-> w.sequence,
                           listening |-> TRUE, debounce |-> << >>]) @@ @]

\* content.ts start(), called when not recording; `pageId' is the id
\* crypto.randomUUID gives the page-load event
Start(w, sid, cfg, pageId) ==
  LET fields ==
        [w EXCEPT !.sessionId = sid, !.config = cfg, !.sequence = 0,
                  !.eventBuffer = << >>, !.isRecording = TRUE,
                  !.rules = LoadRulesList(Configs[cfg].redactionRules),
                  !.compiledRegex = LoadRulesCompiled(Configs[cfg].redactionRules),
                  !.recSession = sid,
                  !.accepted = (sid :> << >>) @@ @]
      capturing == EventCaptureStart(MutationCaptureStart(fields, sid), sid)
  IN CaptureInitialState([capturing EXCEPT !.flushInterval = TRUE], pageId)

\* session-manager.ts startSession, called with no session active
StartSession(w, sid) ==
  [w EXCEPT !.sessions = (sid :> [endedAt |-> FALSE, eventCount |-> 0]) @@ @,
            !.currentSession = sid]

\* content.ts flushBuffer after its await, by how the message ended:
\* sendMessage rejected (the catch puts the events back) or resolved
FlushSettled(w, events, rejected) ==
  IF rejected THEN [w EXCEPT !.eventBuffer = events \o @] ELSE w

\* session-manager.ts storeEvents with a session active; storeEventsBatch
\* fails when the transaction does (dbOk is the store's answer, and add()
\* refuses an id already stored)
StoreEvents(w, events, dbOk) ==
  IF GetEventCount(w, w.currentSession) + Len(events) > MAX_EVENTS_PER_SESSION
  THEN StopSession(w)
  ELSE IF dbOk /\ \A k \in 1..Len(events) :
                    \A e \in w.persisted : e.id # events[k].id
       THEN [w EXCEPT !.persisted = @ \cup { events[k] : k \in 1..Len(events) }]
       ELSE w


\* ------------------------------------------------------------ capturers
\* event-listener.ts emit, on the EventCapture `inst'; `target' is the
\* element: what describe and captureFragment give for it
Emit(w, inst, id, type, target, payload) ==
  LET event ==
        [DOMEvent(id, w.captures[inst].sessionId, w.captures[inst].sequence,
                  type, target.target, payload)
           EXCEPT !.domSnapshot =
             IF type = "user:click" THEN << target.fragment >> ELSE << >>]
  IN HandleEvent([w EXCEPT !.captures[inst].sequence = @ + 1], event)

\* event-listener.ts handleClick
HandleClick(w, inst, id, sample) ==
  Emit(w, inst, id, "user:click", sample, Payload("click", "", << >>))

\* event-listener.ts handleInput: the element's type and value
HandleInput(w, inst, id, sample) ==
  Emit(w, inst, id, "user:input", sample,
       Payload("input", sample.inputType, sample.value))

\* debounce.ts debounce, the returned function: a pending timer is replaced
Debounced(w, inst, id, sample) ==
  [w EXCEPT !.captures[inst].debounce = << [id |-> id, sample |-> sample] >>]

\* debounce.ts debounce, the timer callback
DebounceTimeout(w, inst) ==
  LET call == w.captures[inst].debounce[1]
  IN [HandleInput(w, inst, call.id, call.sample) EXCEPT
        !.captures[inst].debounce = << >>]

\* batchMutations that puts the new records ahead of the waiting ones
BatchMutationsPrepend(w, mutations) ==
  [w EXCEPT !.batchBuffer = mutations \o @,
            !.batchTimeout = IF @ = "null" THEN "pending" ELSE @]

\* mutation-observer.ts batchMutations
BatchMutations(w, mutations) ==
  [w EXCEPT !.batchBuffer = @ \o mutations,
            !.batchTimeout = IF @ = "null" THEN "pending" ELSE @]

\* mutation-observer.ts:90-93, the timer callback
BatchTimeoutFired(w) ==
  [ProcessBatch([w EXCEPT !.batchTimeout = "cleared"]) EXCEPT
     !.batchTimeout = "null"]

\* ----------------------------------------------------------------- actions
\* background.ts handleStartRecording with no session active: the session is
\* created and START_RECORDING reaches the content script, whose start()
\* throws when it is recording
StartRecording(cfg) ==
  /\ currentSession = Null
  /\ nextId <= MaxEvents
  /\ LET sid == ToString(nextSession)
         created == [StartSession(World, sid) EXCEPT !.activeTabId = TRUE]
     IN /\ Commit(IF created.isRecording THEN created
                  ELSE Start(created, sid, cfg, nextId))
        /\ nextId' = IF created.isRecording THEN nextId ELSE nextId + 1
  /\ nextSession' = nextSession + 1

\* background.ts handleStopRecording: STOP_RECORDING to the tab, if one is
\* active, and then stopSession
StopRecording ==
  /\ activeTabId \/ currentSession # Null
  /\ Commit(IF activeTabId THEN Stop(World, "bg") ELSE StopRecordingTail(World))
  /\ UNCHANGED << nextId, nextSession >>

\* a click notification on the page
Click ==
  /\ eventCapture # Null
  /\ nextId <= MaxEvents
  /\ Commit(HandleClick(World, eventCapture, nextId, ClickSample))
  /\ nextId' = nextId + 1
  /\ UNCHANGED nextSession

\* an input notification on the page
Input(sample) ==
  /\ eventCapture # Null
  /\ nextId <= MaxEvents
  /\ Commit(Debounced(World, eventCapture, nextId, sample))
  /\ nextId' = nextId + 1
  /\ UNCHANGED nextSession

\* the debounce window of an EventCapture's input listener ends
DebounceFire(inst) ==
  /\ captures[inst].debounce # << >>
  /\ Commit(DebounceTimeout(World, inst))
  /\ UNCHANGED << nextId, nextSession >>

\* the MutationObserver delivers a record
MutationDelivery(a) ==
  /\ mcObserver
  /\ nextId <= MaxEvents
  /\ Commit(BatchMutations(World, << [id |-> nextId, record |-> a] >>))
  /\ nextId' = nextId + 1
  /\ UNCHANGED nextSession

\* the 50 ms batch timer fires
BatchTimerFire ==
  /\ batchTimeout = "pending"
  /\ Commit(BatchTimeoutFired(World))
  /\ UNCHANGED << nextId, nextSession >>

\* content.ts:230-232, the flush interval ticks
FlushTick ==
  /\ flushInterval
  /\ eventBuffer # << >>
  /\ Cardinality(inFlight) < MaxInFlight
  /\ Commit(FlushBuffer(World, "none"))
  /\ UNCHANGED << nextId, nextSession >>

\* the settling of message m, then the rest of the stop() that awaited it
Settle(w, m, rejected) ==
  LET settled == FlushSettled(w, m.events, rejected)
  IN IF m.caller = "none" THEN settled ELSE StopEpilogue(settled, m.caller)

\* chrome.runtime.sendMessage rejects for message m (no receiver)
FlushRejected(m) ==
  /\ m \in inFlight
  /\ Commit(Settle([World EXCEPT !.inFlight = @ \ { m }], m, TRUE))
  /\ UNCHANGED << nextId, nextSession >>

\* background.ts handleStoreEvents for message m, and the reply; every way
\* it ends, also the throw that handleMessage catches, resolves sendMessage
FlushHandled(m, dbOk) ==
  /\ m \in inFlight
  /\ LET taken == [World EXCEPT !.inFlight = @ \ { m }]
         stored == IF taken.currentSession = Null THEN taken
                   ELSE StoreEvents(taken, m.events, dbOk)
     IN Commit(Settle(stored, m, FALSE))
  /\ UNCHANGED << nextId, nextSession >>

Next ==
  \/ \E cfg \in ConfigNames : StartRecording(cfg)
  \/ StopRecording
  \/ Click
  \/ \E sample \in InputSamples : Input(sample)
  \/ \E inst \in DOMAIN captures : DebounceFire(inst)
  \/ \E a \in MutationSamples : MutationDelivery(a)
  \/ BatchTimerFire
  \/ FlushTick
  \/ \E m \in inFlight : FlushRejected(m)
  \/ \E m \in inFlight, dbOk \in BOOLEAN : FlushHandled(m, dbOk)

Spec == Init /\ [][Next]_vars


\* ------------------------------------------------------- the auto-stop check
\* LIMITS.SESSION_AUTO_STOP_HOURS (constants.ts)
SESSION_AUTO_STOP_HOURS == 2

\* what Date.now() - currentSession.startedAt may be at a check, in hours
ElapsedHours == 1..3

\* session-manager.ts checkAutoStop that lets the session run through the
\* hour at which the ceiling is reached
CheckAutoStopLate(w, elapsed) ==
  IF w.currentSession = Null THEN FALSE
  ELSE elapsed > SESSION_AUTO_STOP_HOURS

\* session-manager.ts checkAutoStop; `elapsed' is Date.now() - startedAt
CheckAutoStop(w, elapsed) ==
  IF w.currentSession = Null THEN FALSE
  ELSE elapsed >= SESSION_AUTO_STOP_HOURS

\* background.ts startAutoStopCheck, the callback of the interval, with a
\* session active (an interval runs from handleStartRecording on and is
\* cleared only after stopSession; with no session checkAutoStop is false
\* and the callback does nothing). The clock does not run backwards: the
\* elapsed time is not below the one the session's last check saw. probeIn
\* keeps what the check saw.
AutoStopCheck(elapsed) ==
  /\ currentSession # Null
  /\ probeIn # << >> /\ probeIn[1].session = currentSession
       => elapsed >= probeIn[1].elapsed
  /\ probeIn' = << [session |-> currentSession, elapsed |-> elapsed] >>
  /\ CommitState(IF CheckAutoStop(World, elapsed)
                 THEN IF activeTabId THEN Stop(World, "bg")
                      ELSE StopRecordingTail(World)
                 ELSE World)
  /\ UNCHANGED << probeOut, nextId, nextSession, pageVars >>

\* the pipeline with the check; the input listener's debounce, which hands
\* its events to handleEvent like a click does, is left out
NextAutoStop ==
  \/ \E cfg \in ConfigNames : StartRecording(cfg)
  \/ StopRecording
  \/ Click
  \/ \E a \in MutationSamples : MutationDelivery(a)
  \/ BatchTimerFire
  \/ FlushTick
  \/ \E m \in inFlight : FlushRejected(m)
  \/ \E m \in inFlight, dbOk \in BOOLEAN : FlushHandled(m, dbOk)
  \/ \E elapsed \in ElapsedHours : AutoStopCheck(elapsed)

SpecAutoStop == Init /\ [][NextAutoStop]_vars


\* ------------------------------------------- the input and scroll listeners
\* number of notifications a behaviour gives the listeners
MaxNotifications == 4

\* what the user may type into the field, and where the page may scroll to
FieldValues == { << "a" >>, << "a", "b" >>, << "a", "b", "c" >> }
ScrollPositions == 1..3

\* a timer has been set and is due
IsDue(timer) == timer # << >> /\ now >= timer[1].due

\* time passes; a timer runs when it is due
Tick ==
  /\ now < MaxTime
  /\ ~IsDue(debounceTimer)
  /\ ~IsDue(throttleTimer)
  /\ ~(batchTimeout = "pending" /\ now >= batchDue)
  /\ now' = now + 1
  /\ UNCHANGED << isRecording, sessionId, config, sequence, eventBuffer,
                  flushInterval, rules, compiledRegex, mcObserver,
                  mcSessionId, mcSequence, batchBuffer, batchTimeout,
                  eventCapture, captures, inFlight, currentSession,
                  activeTabId, sessions, persisted, recSession, accepted,
                  ceilingStops, nextId, nextSession, probeIn, probeOut,
                  managerVars, domVars, fieldValue, scrollY, debounceTimer,
                  lastCall, throttleTimer, emitted, notified >>

\* debounce that leaves a pending timer as it is
DebouncedCallOnce(timer, wait, args) ==
  IF timer # << >> THEN timer
  ELSE << [due |-> now + wait, args |-> args] >>

\* debounce.ts debounce, the returned function: clearTimeout of a pending
\* timer, and a new timer for the arguments of this call
DebouncedCall(timer, wait, args) ==
  << [due |-> now + wait, args |-> args] >>

\* EventCapture.emit of an event of the type with the value in its payload;
\* the history keeps when, and how many notifications had been given
Emitted(log, type, value, given) ==
  Append(log, [type |-> type, at |-> now, value |-> value, after |-> given])

\* an input notification: the user has typed, the field holds `value', and
\* the listener of start() (the debounced handleInput) is called with the
\* event, whose target is the field
InputNotification(value) ==
  /\ Len(notified) < MaxNotifications
  /\ value # fieldValue
  /\ fieldValue' = value
  /\ debounceTimer' = DebouncedCall(debounceTimer, INPUT_DEBOUNCE_MS, "field")
  /\ notified' = Append(notified, [type |-> "input", at |-> now, value |-> value])
  /\ UNCHANGED << isRecording, sessionId, config, sequence, eventBuffer,
                  flushInterval, rules, compiledRegex, mcObserver,
                  mcSessionId, mcSequence, batchBuffer, batchTimeout,
                  eventCapture, captures, inFlight, currentSession,
                  activeTabId, sessions, persisted, recSession, accepted,
                  ceilingStops, nextId, nextSession, probeIn, probeOut,
                  managerVars, domVars, now, scrollY, lastCall, throttleTimer,
                  emitted >>

\* the timer of debounce runs: handleInput with the arguments of the last
\* call, which reads the value of the target now, and timeoutId = null
DebounceTimerFires ==
  /\ IsDue(debounceTimer)
  /\ emitted' = Emitted(emitted, "user:input", fieldValue, Len(notified))
  /\ debounceTimer' = << >>
  /\ UNCHANGED << isRecording, sessionId, config, sequence, eventBuffer,
                  flushInterval, rules, compiledRegex, mcObserver,
                  mcSessionId, mcSequence, batchBuffer, batchTimeout,
                  eventCapture, captures, inFlight, currentSession,
                  activeTabId, sessions, persisted, recSession, accepted,
                  ceilingStops, nextId, nextSession, probeIn, probeOut,
                  managerVars, domVars, now, fieldValue, scrollY, lastCall,
                  throttleTimer, notified >>

NextDebounce ==
  \/ \E value \in FieldValues : InputNotification(value)
  \/ DebounceTimerFires
  \/ Tick

SpecDebounce == Init /\ [][NextDebounce]_vars

\* throttle that drops the calls inside the window
ThrottledCallLeading(last, timer, wait, args) ==
  IF wait - (now - last) <= 0
  THEN [lastCall |-> now, timer |-> << >>, called |-> TRUE]
  ELSE [lastCall |-> last, timer |-> timer, called |-> FALSE]

\* debounce.ts throttle, the returned function: what becomes of lastCall and
\* timeoutId, and whether fn is called
ThrottledCall(last, timer, wait, args) ==
  LET remaining == wait - (now - last)
  IN IF remaining <= 0
     THEN [lastCall |-> now, timer |-> << >>, called |-> TRUE]
     ELSE IF timer = << >>
          THEN [lastCall |-> last,
                timer |-> << [due |-> now + remaining, args |-> args] >>,
                called |-> FALSE]
          ELSE [lastCall |-> last, timer |-> timer, called |-> FALSE]

\* a scroll notification: the page has scrolled to `position', and the
\* listener of start() (the throttled handleScroll, which reads the
\* position of the window) is called
ScrollNotification(position) ==
  /\ Len(notified) < MaxNotifications
  /\ position # scrollY
  /\ scrollY' = position
  /\ notified' = Append(notified, [type |-> "scroll", at |-> now, value |-> position])
  /\ LET call == ThrottledCall(lastCall, throttleTimer, SCROLL_THROTTLE_MS, "scroll")
     IN /\ lastCall' = call.lastCall
        /\ throttleTimer' = call.timer
        /\ emitted' = IF call.called
                      THEN Emitted(emitted, "user:scroll", position,
                                   Len(notified) + 1)
                      ELSE emitted
  /\ UNCHANGED << isRecording, sessionId, config, sequence, eventBuffer,
                  flushInterval, rules, compiledRegex, mcObserver,
                  mcSessionId, mcSequence, batchBuffer, batchTimeout,
                  eventCapture, captures, inFlight, currentSession,
                  activeTabId, sessions, persisted, recSession, accepted,
                  ceilingStops, nextId, nextSession, probeIn, probeOut,
                  managerVars, domVars, now, fieldValue, debounceTimer >>

\* the timer of throttle runs: lastCall = Date.now(), timeoutId = null, and
\* handleScroll, which reads the position of the window now
ThrottleTimerFires ==
  /\ IsDue(throttleTimer)
  /\ lastCall' = now
  /\ throttleTimer' = << >>
  /\ emitted' = Emitted(emitted, "user:scroll", scrollY, Len(notified))
  /\ UNCHANGED << isRecording, sessionId, config, sequence, eventBuffer,
                  flushInterval, rules, compiledRegex, mcObserver,
                  mcSessionId, mcSequence, batchBuffer, batchTimeout,
                  eventCapture, captures, inFlight, currentSession,
                  activeTabId, sessions, persisted, recSession, accepted,
                  ceilingStops, nextId, nextSession, probeIn, probeOut,
                  managerVars, domVars, now, fieldValue, scrollY,
                  debounceTimer, notified >>

NextThrottle ==
  \/ \E position \in ScrollPositions : ScrollNotification(position)
  \/ ThrottleTimerFires
  \/ Tick

SpecThrottle == Init /\ [][NextThrottle]_vars


\* ------------------------------------------- input on several elements
\* the elements of the page that take input
Fields == { "fieldA", "fieldB" }

\* an input notification whose target is the element: start() has one
\* listener on document for every element, the debounced handleInput, and
\* it is called with the event
FieldInput(element) ==
  /\ Len(notified) < MaxNotifications
  /\ debounceTimer' = DebouncedCall(debounceTimer, INPUT_DEBOUNCE_MS, element)
  /\ notified' = Append(notified, [type |-> "input", at |-> now, target |-> element])
  /\ UNCHANGED << isRecording, sessionId, config, sequence, eventBuffer,
                  flushInterval, rules, compiledRegex, mcObserver,
                  mcSessionId, mcSequence, batchBuffer, batchTimeout,
                  eventCapture, captures, inFlight, currentSession,
                  activeTabId, sessions, persisted, recSession, accepted,
                  ceilingStops, nextId, nextSession, probeIn, probeOut,
                  managerVars, domVars, now, fieldValue, scrollY, lastCall,
                  throttleTimer, emitted >>

\* the timer of debounce runs: handleInput with the event of the last call
\* emits an input event for the target of that event
FieldTimerFires ==
  /\ IsDue(debounceTimer)
  /\ emitted' = Append(emitted, [type |-> "user:input", at |-> now,
                                 target |-> debounceTimer[1].args,
                                 after |-> Len(notified)])
  /\ debounceTimer' = << >>
  /\ UNCHANGED << isRecording, sessionId, config, sequence, eventBuffer,
                  flushInterval, rules, compiledRegex, mcObserver,
                  mcSessionId, mcSequence, batchBuffer, batchTimeout,
                  eventCapture, captures, inFlight, currentSession,
                  activeTabId, sessions, persisted, recSession, accepted,
                  ceilingStops, nextId, nextSession, probeIn, probeOut,
                  managerVars, domVars, now, fieldValue, scrollY, lastCall,
                  throttleTimer, notified >>

NextFields ==
  \/ \E element \in Fields : FieldInput(element)
  \/ FieldTimerFires
  \/ Tick

\* a timer that is due runs, and time goes on to the horizon
SpecFields ==
  Init /\ [][NextFields]_vars /\ WF_vars(FieldTimerFires) /\ WF_vars(Tick)


\* ------------------------------------------------------ the batch timer
\* batchMutations that sets the timer anew at every delivery
BatchTimerDueRestarted(timeout, due) == now + BATCH_WINDOW_MS

\* mutation-observer.ts:89-94, the setTimeout of batchMutations: when the
\* timer is due after the call
BatchTimerDue(timeout, due) ==
  IF timeout = "null" THEN now + BATCH_WINDOW_MS ELSE due

\* the MutationObserver delivers a record, on the clock
TimedDelivery(a) ==
  /\ mcObserver
  /\ nextId <= MaxEvents
  /\ CommitState(BatchMutations(World, << [id |-> nextId, record |-> a] >>))
  /\ batchDue' = BatchTimerDue(batchTimeout, batchDue)
  /\ nextId' = nextId + 1
  /\ UNCHANGED << nextSession, probeIn, probeOut, managerVars, now,
                  fieldValue, scrollY, debounceTimer, lastCall, throttleTimer,
                  emitted, notified, parentChildren, pendingRecords >>

\* the timer of batchMutations runs when it is due
TimedBatchFire ==
  /\ batchTimeout = "pending"
  /\ now >= batchDue
  /\ Commit(BatchTimeoutFired(World))
  /\ UNCHANGED << nextId, nextSession >>

NextBatch ==
  \/ \E cfg \in ConfigNames : StartRecording(cfg)
  \/ StopRecording
  \/ \E a \in MutationSamples : TimedDelivery(a)
  \/ TimedBatchFire
  \/ Tick
  \/ \E m \in inFlight, dbOk \in BOOLEAN : FlushHandled(m, dbOk)

SpecBatch == Init /\ [][NextBatch]_vars


\* ---------------------------------------------------- the parent context
\* number of child nodes the observed parent may hold
MaxChildren == 3

\* the nodes a script may add to the parent
NewNodes == { "b", "c" }

\* Element.outerHTML of the parent with the children
OuterHTML(children) == << "<ul>" >> \o children \o << "</ul>" >>

\* Array.prototype.find over childNodes with isEqualNode: the first child
\* equal to the node (0 for undefined)
FindEqualNode(children, node) ==
  IF \E k \in 1..Len(children) : children[k] = node
  THEN CHOOSE k \in 1..Len(children) :
         children[k] = node /\ \A j \in 1..(k - 1) : children[j] # node
  ELSE 0

\* the sequence without its k-th element
RemoveAt(children, k) ==
  SubSeq(children, 1, k - 1) \o SubSeq(children, k + 1, Len(children))

RECURSIVE RemoveAdded(_, _)
\* reconstructBeforeState, the loop over addedNodes
RemoveAdded(clone, addedNodes) ==
  IF addedNodes = << >> THEN clone
  ELSE LET match == FindEqualNode(clone, Head(addedNodes))
       IN RemoveAdded(IF match > 0 THEN RemoveAt(clone, match) ELSE clone,
                      Tail(addedNodes))

\* mutation-observer.ts reconstructBeforeState: on a clone of the parent as
\* it is now, the added nodes are removed and the removed ones appended
ReconstructBeforeState(children, mutation) ==
  OuterHTML(RemoveAdded(children, mutation.addedNodes) \o mutation.removedNodes)

\* mutation-observer.ts:73-84, the map of batchMutations for a childList
\* record with includeParentContext set: the MutationWithContext
WithContext(children, mutation) ==
  [record |-> mutation,
   parentHTMLBefore |-> ReconstructBeforeState(children, mutation)]

\* buildPayload that reconstructs the state before when the batch is flushed
BuildParentContextLate(mctx, children) ==
  [parentHTMLBefore |-> ReconstructBeforeState(children, mctx.record),
   parentHTMLAfter |-> OuterHTML(children)]

\* mutation-observer.ts:214-222, buildPayload with includeParentContext
\* set; `children' are those of the parent when the payload is built
BuildParentContext(mctx, children) ==
  [parentHTMLBefore |-> mctx.parentHTMLBefore,
   parentHTMLAfter |-> OuterHTML(children)]

\* createEvent for a childList record of the parent, the fields of its
\* payload that carry the parent context; the history keeps the record
ParentContextEvent(mctx, children) ==
  [type |-> IF mctx.record.addedNodes # << >> THEN "mutation:add"
            ELSE "mutation:remove",
   id |-> mctx.record.id,
   payload |-> BuildParentContext(mctx, children),
   record |-> mctx.record]

\* content.ts start(), the MutationCapture's part
StartObserving ==
  /\ ~mcObserver
  /\ pendingRecords = << >>
  /\ Commit(MutationCaptureStart(World, "1"))
  /\ UNCHANGED << nextId, nextSession >>

\* a script appends a node to the observed parent: the MutationObserver
\* queues the record, which keeps the children before and after the change
AppendChild(node) ==
  /\ mcObserver
  /\ nextId <= MaxEvents
  /\ Len(parentChildren) < MaxChildren
  /\ parentChildren' = Append(parentChildren, node)
  /\ pendingRecords' =
       Append(pendingRecords,
              [id |-> nextId, type |-> "childList", addedNodes |-> << node >>,
               removedNodes |-> << >>, before |-> parentChildren,
               after |-> Append(parentChildren, node)])
  /\ nextId' = nextId + 1
  /\ UNCHANGED << isRecording, sessionId, config, sequence, eventBuffer,
                  flushInterval, rules, compiledRegex, mcObserver,
                  mcSessionId, mcSequence, batchBuffer, batchTimeout,
                  eventCapture, captures, inFlight, currentSession,
                  activeTabId, sessions, persisted, recSession, accepted,
                  ceilingStops, nextSession, probeIn, probeOut, managerVars,
                  now, fieldValue, scrollY, debounceTimer, lastCall,
                  throttleTimer, emitted, notified, batchDue >>

\* a script removes the k-th child of the observed parent
RemoveChild(k) ==
  /\ mcObserver
  /\ nextId <= MaxEvents
  /\ k \in 1..Len(parentChildren)
  /\ parentChildren' = RemoveAt(parentChildren, k)
  /\ pendingRecords' =
       Append(pendingRecords,
              [id |-> nextId, type |-> "childList", addedNodes |-> << >>,
               removedNodes |-> << parentChildren[k] >>,
               before |-> parentChildren,
               after |-> RemoveAt(parentChildren, k)])
  /\ nextId' = nextId + 1
  /\ UNCHANGED << isRecording, sessionId, config, sequence, eventBuffer,
                  flushInterval, rules, compiledRegex, mcObserver,
                  mcSessionId, mcSequence, batchBuffer, batchTimeout,
                  eventCapture, captures, inFlight, currentSession,
                  activeTabId, sessions, persisted, recSession, accepted,
                  ceilingStops, nextSession, probeIn, probeOut, managerVars,
                  now, fieldValue, scrollY, debounceTimer, lastCall,
                  throttleTimer, emitted, notified, batchDue >>

\* the script's turn is over and the MutationObserver calls back with the
\* records it has queued: batchMutations; the history keeps what was
\* reconstructed for each record in this turn
DeliverRecords ==
  /\ pendingRecords # << >>
  /\ CommitState(BatchMutations(World,
       [k \in 1..Len(pendingRecords) |->
          WithContext(parentChildren, pendingRecords[k])]))
  /\ pendingRecords' = << >>
  /\ notified' =
       notified \o
       [k \in 1..Len(pendingRecords) |->
          [type |-> "childList", at |-> now,
           value |-> ReconstructBeforeState(parentChildren, pendingRecords[k])]]
  /\ UNCHANGED << nextId, nextSession, probeIn, probeOut, managerVars, now,
                  fieldValue, scrollY, debounceTimer, lastCall, throttleTimer,
                  emitted, batchDue, parentChildren >>

\* the timer of batchMutations runs, in a task of its own: processBatch
\* makes the events of the batch and hands them to the callback
FlushParentContext ==
  /\ batchTimeout = "pending"
  /\ pendingRecords = << >>
  /\ emitted' = emitted \o
                [k \in 1..Len(batchBuffer) |->
                   ParentContextEvent(batchBuffer[k], parentChildren)]
  /\ batchBuffer' = << >>
  /\ batchTimeout' = "null"
  /\ UNCHANGED << isRecording, sessionId, config, sequence, eventBuffer,
                  flushInterval, rules, compiledRegex, mcObserver,
                  mcSessionId, mcSequence, eventCapture, captures, inFlight,
                  currentSession, activeTabId, sessions, persisted,
                  recSession, accepted, ceilingStops, nextId, nextSession,
                  probeIn, probeOut, managerVars, now, fieldValue, scrollY,
                  debounceTimer, lastCall, throttleTimer, notified, domVars >>

NextParentContext ==
  \/ StartObserving
  \/ \E node \in NewNodes : AppendChild(node)
  \/ \E k \in 1..MaxChildren : RemoveChild(k)
  \/ DeliverRecords
  \/ FlushParentContext

SpecParentContext == Init /\ [][NextParentContext]_vars


\* ------------------------------------------- the kinds of mutation records
\* a MutationRecord of the given type on an element with the given tag, with
\* so many added and removed nodes (text nodes, when no fragment is named:
\* captureFragment is given no element)
Record(type, added, removed, tag) ==
  [type |-> type, added |-> added, removed |-> removed, tag |-> tag,
   addedFragments |-> << >>, removedFragments |-> << >>]

\* the records the observer may deliver: every type, child lists with and
\* without added and removed nodes, on a form and inside script and style
RecordSamples ==
  { Record("childList", 1, 0, "form"), Record("childList", 0, 1, "form"),
    [Record("childList", 2, 1, "form") EXCEPT
       !.addedFragments = << Fragment(<< "<li>", "</li>" >>, << >>, << >>) >>,
       !.removedFragments = << Fragment(<< "<p>", "</p>" >>, << >>, << >>) >>],
    Record("childList", 0, 0, "form"),
    Record("attributes", 0, 0, "form"), Record("characterData", 0, 0, "form"),
    Record("attributes", 0, 0, "script"), Record("childList", 1, 0, "style") }

NextRecords ==
  \/ \E cfg \in ConfigNames : StartRecording(cfg)
  \/ StopRecording
  \/ \E a \in RecordSamples : MutationDelivery(a)
  \/ BatchTimerFire
  \/ \E m \in inFlight, dbOk \in BOOLEAN : FlushHandled(m, dbOk)

SpecRecords == Init /\ [][NextRecords]_vars


\* ------------------------------------------------- the navigation listeners
\* the EventCaptures made so far, in the order they were started
RECURSIVE StartedCaptures(_, _)
StartedCaptures(w, n) ==
  IF n = 0 THEN << >>
  ELSE StartedCaptures(w, n - 1)
         \o (IF ToString(n) \in DOMAIN w.captures THEN << ToString(n) >>
             ELSE << >>)

\* what describe gives for document.documentElement
DocumentElement ==
  [target |-> Descriptor("html", << >>, << "html" >>, << >>),
   fragment |-> Fragment(<< "<html>" >>, << >>, << >>)]

\* event-listener.ts handleNavigation and emitNavigation; navType is the
\* type field of the NavigationPayload
HandleNavigation(w, inst, id, navType) ==
  Emit(w, inst, id, "user:navigation", DocumentElement,
       Payload("navigation", "", << >>) @@ [navType |-> navType])

RECURSIVE NavigationHandlers(_, _, _, _)
\* the handlers a navigation runs, the first of `insts' first, with the ids
\* from `id' on
NavigationHandlers(w, insts, id, navType) ==
  IF insts = << >> THEN w
  ELSE NavigationHandlers(HandleNavigation(w, Head(insts), id, navType),
                          Tail(insts), id + 1, navType)

\* a popstate or hashchange event on window. start() adds these two listeners
\* with capture false and stop() removes with capture true, which removes
\* none of them: the listener of every EventCapture started so far runs
PopState ==
  LET insts == StartedCaptures(World, nextSession)
  IN /\ insts # << >>
     /\ nextId + Len(insts) - 1 <= MaxEvents
     /\ Commit(NavigationHandlers(World, insts, nextId, "popstate"))
     /\ nextId' = nextId + Len(insts)
     /\ UNCHANGED nextSession

\* the page calls history.pushState or history.replaceState. Each start()
\* wraps the function it finds and nothing restores it: the call runs the
\* wrapper of the last EventCapture, which first calls the one before it, and
\* so on down to the browser's, and then emits
PushState ==
  LET insts == StartedCaptures(World, nextSession)
  IN /\ insts # << >>
     /\ nextId + Len(insts) - 1 <= MaxEvents
     /\ Commit(NavigationHandlers(World, insts, nextId, "pushState"))
     /\ nextId' = nextId + Len(insts)
     /\ UNCHANGED nextSession

NextNavigation ==
  \/ \E cfg \in ConfigNames : StartRecording(cfg)
  \/ StopRecording
  \/ Click
  \/ \E sample \in InputSamples : Input(sample)
  \/ \E inst \in DOMAIN captures : DebounceFire(inst)
  \/ PopState
  \/ PushState
  \/ FlushTick
  \/ \E m \in inFlight, dbOk \in BOOLEAN : FlushHandled(m, dbOk)

SpecNavigation == Init /\ [][NextNavigation]_vars


\* --------------------------------- the session manager, await by await
\* number of sessions a behaviour may ask for, and of calls that may wait for
\* the database at one time
MaxStarts == 3
MaxCalls == 2

\* what the content script and the export keep of the state
contentVars ==
  << isRecording, sessionId, config, sequence, eventBuffer, flushInterval,
     rules, compiledRegex, mcObserver, mcSessionId, mcSequence, batchBuffer,
     batchTimeout, eventCapture, captures, inFlight, recSession, accepted,
     ceilingStops, probeIn, probeOut, now, fieldValue, scrollY, debounceTimer,
     lastCall, throttleTimer, emitted, notified, domVars >>

\* a call that waits: the function, the await it is at, the session it holds
\* and the count it has read
Call(op, pc, sid, count, events) ==
  [op |-> op, pc |-> pc, sid |-> sid, count |-> count, events |-> events]

\* session-manager.ts stopSession up to its first await, with the calls
\* waiting beside it: nothing with no session, else getEventCount is asked
\* for the current session
StopSessionBegin(waiting) ==
  IF currentSession = Null THEN waiting
  ELSE waiting \cup { Call("stopSession", "getEventCount", currentSession, 0, << >>) }

\* session-manager.ts startSession up to its await of createSession
StartSessionBegin(sid) ==
  /\ calls' = calls \cup { Call("startSession", "createSession", sid, 0, << >>) }
  /\ UNCHANGED << currentSession, recordingState >>

\* background.ts handleStartRecording reaches startSession (tabs.query and
\* loadSessionConfig have answered): it throws with a session active
StartSessionCall ==
  /\ nextSession <= MaxStarts
  /\ Cardinality(calls) < MaxCalls
  /\ IF currentSession # Null
     THEN UNCHANGED << currentSession, recordingState, calls >>
     ELSE StartSessionBegin(ToString(nextSession))
  /\ nextSession' = nextSession + 1
  /\ UNCHANGED << sessions, persisted, activeTabId, nextId, contentVars >>

\* createSession has added the record; startSession sets currentSession and
\* recordingState, and handleStartRecording goes on (background.ts:137)
CreateSessionDone(c) ==
  /\ c \in calls
  /\ c.op = "startSession"
  /\ sessions' = (c.sid :> [endedAt |-> FALSE, eventCount |-> 0]) @@ sessions
  /\ currentSession' = c.sid
  /\ recordingState' = "recording"
  /\ activeTabId' = TRUE
  /\ calls' = calls \ { c }
  /\ UNCHANGED << persisted, nextId, nextSession, contentVars >>

\* stopSession is called: by handleStopRecording (from the popup, or from
\* the auto-stop interval) or by the tabs.onRemoved listener
StopSessionCall ==
  /\ Cardinality(calls) < MaxCalls
  /\ currentSession # Null \/ activeTabId
  /\ calls' = StopSessionBegin(calls)
  /\ activeTabId' = IF currentSession = Null THEN FALSE ELSE activeTabId
  /\ UNCHANGED << currentSession, recordingState, sessions, persisted, nextId,
                  nextSession, contentVars >>

\* getEventCount answers a stopSession: endedAt and eventCount are written
\* into the object currentSession names now (a TypeError with none), and
\* updateSession is asked to put it
StopSessionCounted(c) ==
  /\ c \in calls
  /\ c.op = "stopSession"
  /\ c.pc = "getEventCount"
  /\ calls' =
       IF currentSession = Null THEN calls \ { c }
       ELSE ( calls \ { c } )
              \cup { Call("stopSession", "updateSession", currentSession,
                          GetEventCount(World, c.sid), << >>) }
  /\ UNCHANGED << currentSession, recordingState, sessions, persisted,
                  activeTabId, nextId, nextSession, contentVars >>

\* updateSession has put the record: currentSession = null, recordingState =
\* 'idle', and the caller clears activeTabId
StopSessionUpdated(c) ==
  /\ c \in calls
  /\ c.op = "stopSession"
  /\ c.pc = "updateSession"
  /\ sessions' = (c.sid :> [endedAt |-> TRUE, eventCount |-> c.count]) @@ sessions
  /\ currentSession' = Null
  /\ recordingState' = "idle"
  /\ activeTabId' = FALSE
  /\ calls' = calls \ { c }
  /\ UNCHANGED << persisted, nextId, nextSession, contentVars >>

\* background.ts handleStoreEvents: a STORE_EVENTS message with one event of
\* the session being recorded; storeEvents throws with no session and else
\* asks getEventCount for the current session
StoreEventsCall ==
  /\ nextId <= MaxEvents
  /\ Cardinality(calls) < MaxCalls
  /\ currentSession # Null
  /\ calls' = calls \cup
       { Call("storeEvents", "getEventCount", currentSession, 0,
              << DOMEvent(nextId, currentSession, 0, "user:click",
                          ClickSample.target, Payload("click", "", << >>)) >>) }
  /\ nextId' = nextId + 1
  /\ UNCHANGED << currentSession, recordingState, sessions, persisted,
                  activeTabId, nextSession, contentVars >>

\* getEventCount answers a storeEvents: over the ceiling it calls
\* stopSession and returns, else it asks storeEventsBatch to add the events
StoreEventsCounted(c) ==
  /\ c \in calls
  /\ c.op = "storeEvents"
  /\ c.pc = "getEventCount"
  /\ calls' =
       IF GetEventCount(World, c.sid) + Len(c.events) > MAX_EVENTS_PER_SESSION
       THEN StopSessionBegin(calls \ { c })
       ELSE ( calls \ { c } )
              \cup { Call("storeEvents", "storeEventsBatch", c.sid, 0, c.events) }
  /\ UNCHANGED << currentSession, recordingState, sessions, persisted,
                  activeTabId, nextId, nextSession, contentVars >>

\* storeEventsBatch has added the events
StoreEventsStored(c) ==
  /\ c \in calls
  /\ c.op = "storeEvents"
  /\ c.pc = "storeEventsBatch"
  /\ persisted' = persisted \cup { c.events[k] : k \in 1..Len(c.events) }
  /\ calls' = calls \ { c }
  /\ UNCHANGED << currentSession, recordingState, sessions, activeTabId,
                  nextId, nextSession, contentVars >>

NextSessions ==
  \/ StartSessionCall
  \/ \E c \in calls : CreateSessionDone(c)
  \/ StopSessionCall
  \/ \E c \in calls : StopSessionCounted(c)
  \/ \E c \in calls : StopSessionUpdated(c)
  \/ StoreEventsCall
  \/ \E c \in calls : StoreEventsCounted(c)
  \/ \E c \in calls : StoreEventsStored(c)

SpecSessions == Init /\ [][NextSessions]_vars


\* ------------------------------------------- the redaction engine alone
\* the rule lists a session may load: loadSessionConfig's list for some
\* disabled defaults and custom rules
RuleSets ==
  { SessionRules(d, c) :
      d \in { {}, { "input-password", "regex-email" } },
      c \in { << >>, << EmailTypeRule, BracketRule >>,
              << PinSelectorRule, WordRule >> } }

ProbeTargets ==
  { Descriptor("input", << "pw" >>, << "#", "pw" >>, << >>),
    Descriptor("input", << "pin", "code" >>, << "#", "pin", "code" >>, << "PIN" >>),
    Descriptor("input", << >>, << "form", ">", "input", ".", "cvv" >>,
               << "Card", CardSym >>) }

ProbeTypes == { "password", "email", "text" }

ProbeValues ==
  { << "hunter2" >>, << "mail", EmailSym >>, << "[PASSWORD]" >> }

ProbeEvent(target, inputType, value) ==
  DOMEvent(1, "1", 0, "user:input", target, Payload("input", inputType, value))

\* RedactionEngine.loadRules
LoadRules(customRules) ==
  /\ rules' = LoadRulesList(customRules)
  /\ compiledRegex' = LoadRulesCompiled(customRules)
  /\ probeIn' = << >>
  /\ probeOut' = << >>
  /\ UNCHANGED << isRecording, sessionId, config, sequence, eventBuffer,
                  flushInterval, mcObserver, mcSessionId, mcSequence,
                  batchBuffer, batchTimeout, eventCapture, captures, inFlight,
                  currentSession, activeTabId, sessions, persisted, recSession,
                  accepted, ceilingStops, nextId, nextSession,
                  pageVars >>

\* RedactionEngine.process on two input events that differ in their value only
ProcessProbes(target, inputType, v1, v2) ==
  /\ rules # << >>
  /\ probeIn' = << ProbeEvent(target, inputType, v1),
                   ProbeEvent(target, inputType, v2) >>
  /\ probeOut' = << Process(rules, compiledRegex, ProbeEvent(target, inputType, v1)),
                    Process(rules, compiledRegex, ProbeEvent(target, inputType, v2)) >>
  /\ UNCHANGED << isRecording, sessionId, config, sequence, eventBuffer,
                  flushInterval, rules, compiledRegex, mcObserver,
                  mcSessionId, mcSequence, batchBuffer, batchTimeout,
                  eventCapture, captures, inFlight, currentSession,
                  activeTabId, sessions, persisted, recSession, accepted,
                  ceilingStops, nextId, nextSession, pageVars >>

NextRedaction ==
  \/ \E c \in RuleSets : LoadRules(c)
  \/ \E t \in ProbeTargets, it \in ProbeTypes, v1, v2 \in ProbeValues :
       ProcessProbes(t, it, v1, v2)

SpecRedaction == Init /\ [][NextRedaction]_vars


\* ---------------------------------------------- process, on its objects
\* A heap is a sequence of objects and an address an index of it: an event
\* object holds the addresses of its target, payload and snapshot (0 for
\* none).  The event e as the capturer built it, at address 1:
StoreEvent(e) ==
  << [e EXCEPT !.target = 2, !.payload = 3,
               !.domSnapshot = IF e.domSnapshot = << >> THEN 0 ELSE 4],
     e.target, e.payload >>
  \o (IF e.domSnapshot = << >> THEN << >> ELSE << e.domSnapshot[1] >>)

\* the event read through the address ref
Deref(heap, ref) ==
  [heap[ref] EXCEPT
     !.target = heap[heap[ref].target],
     !.payload = heap[heap[ref].payload],
     !.domSnapshot = IF heap[ref].domSnapshot = 0 THEN << >>
                     ELSE << heap[heap[ref].domSnapshot] >>]

\* process that works on the event it was given (const redacted = event)
ProcessOnHeapNoCopy(rs, compiled, heap, ref) ==
  LET event == heap[ref]
      h2 == IF heap[event.target].label # << >>
            THEN [Append(heap, [heap[event.target] EXCEPT
                                  !.label = RedactText(rs, compiled, @)])
                    EXCEPT ![ref].target = Len(heap) + 1]
            ELSE heap
      h3 == IF event.type = "user:input"
            THEN [Append(h2, [heap[event.payload] EXCEPT
                     !.value =
                        IF ShouldRedactInputType(rs, heap[event.target],
                                                 heap[event.payload].inputType)
                        THEN GetReplacementForInputType(rs, heap[event.target],
                                                        heap[event.payload].inputType)
                        ELSE RedactText(rs, compiled, @)])
                    EXCEPT ![ref].payload = Len(h2) + 1]
            ELSE h2
      h4 == IF h3[ref].domSnapshot # 0
            THEN [Append(h3,
                    [html |-> RedactText(rs, compiled, h3[h3[ref].domSnapshot].html),
                     text |-> RedactText(rs, compiled, h3[h3[ref].domSnapshot].text),
                     attributes |->
                       RedactAttributes(rs, compiled,
                                        h3[h3[ref].domSnapshot].attributes)])
                    EXCEPT ![ref].domSnapshot = Len(h3) + 1]
            ELSE h3
  IN [heap |-> [h4 EXCEPT ![ref].processed = TRUE], ref |-> ref]

\* RedactionEngine.process on the event object at `ref': the new objects are
\* appended to the heap, and the address of the returned event is `ref' of
\* the result
ProcessOnHeap(rs, compiled, heap, ref) ==
  LET event == heap[ref]
      \* const redacted = { ...event }
      h1 == Append(heap, event)
      red == Len(h1)
      \* redacted.target = { ...redacted.target, label: ... }
      h2 == IF h1[h1[red].target].label # << >>
            THEN [Append(h1, [h1[h1[red].target] EXCEPT
                                !.label = RedactText(rs, compiled, @)])
                    EXCEPT ![red].target = Len(h1) + 1]
            ELSE h1
      \* redacted.payload = { ...inputPayload, value: ... }
      h3 == IF event.type = "user:input"
            THEN [Append(h2, [h2[event.payload] EXCEPT
                     !.value =
                        IF ShouldRedactInputType(rs, h2[event.target],
                                                 h2[event.payload].inputType)
                        THEN GetReplacementForInputType(rs, h2[event.target],
                                                        h2[event.payload].inputType)
                        ELSE RedactText(rs, compiled, @)])
                    EXCEPT ![red].payload = Len(h2) + 1]
            ELSE h2
      \* redacted.domSnapshot = { ...redacted.domSnapshot, html, text, attributes }
      h4 == IF h3[red].domSnapshot # 0
            THEN [Append(h3,
                    [html |-> RedactText(rs, compiled, h3[h3[red].domSnapshot].html),
                     text |-> RedactText(rs, compiled, h3[h3[red].domSnapshot].text),
                     attributes |->
                       RedactAttributes(rs, compiled,
                                        h3[h3[red].domSnapshot].attributes)])
                    EXCEPT ![red].domSnapshot = Len(h3) + 1]
            ELSE h3
  IN [heap |-> [h4 EXCEPT ![red].processed = TRUE], ref |-> red]

\* content.ts:174-177: the event is processed and the returned event numbered
ProcessAndNumber(rs, compiled, heap, ref, seq) ==
  LET returned == ProcessOnHeap(rs, compiled, heap, ref)
  IN [heap |-> [returned.heap EXCEPT ![returned.ref].sequence = seq],
      ref |-> returned.ref]

\* custom rules of the settings: a word whose replacement tag spells the
\* word, a pattern new RegExp rejects, and a rule that matches the
\* replacement of another
SecretRule ==
  Rule("custom-secret", "regex", Regex(<< << "secret" >> >>),
       << "[", "SECRET", "]" >>, TRUE)
InvalidRule ==
  Rule("custom-invalid", "regex", [valid |-> FALSE, alts |-> << << "hunter2" >> >>],
       << "[BROKEN]" >>, TRUE)
ChainRule ==
  Rule("custom-chain", "regex", Regex(<< << "[WORD]" >> >>), << "###" >>, TRUE)

ProcessRuleSets ==
  { SessionRules(d, c) :
      d \in { {}, { "regex-email" } },
      c \in { << >>, << SecretRule >>, << InvalidRule, WordRule >>,
              << WordRule, ChainRule >>, << ChainRule, WordRule >> } }

\* the events given to process: inputs of two types on two elements, clicks
\* and a structural change
ProcessEvents ==
  { ProbeEvent(t, it, v) :
      t \in { Descriptor("input", << "pw" >>, << "#", "pw" >>, << >>),
              Descriptor("input", << >>, << "form", ">", "input" >>,
                         << "Card", CardSym, "hunter2" >>) },
      it \in { "text", "password" },
      v \in { << "hunter2" >>, << "my", "secret" >>, << "[", "my", "]" >>,
              << "mail", EmailSym >> } }
  \cup
  { [DOMEvent(1, "1", 0, "user:click", c.target, Payload("click", "", << >>))
       EXCEPT !.domSnapshot = << c.fragment >>] :
      c \in { ClickSample,
              [target |-> Descriptor("div", << >>, << "div", ".", "note" >>, << >>),
               fragment |-> Fragment(<< "<div>", "secret", "hunter2", "</div>" >>,
                                     << "secret", "hunter2" >>,
                                     << [key |-> "title", value |-> << "hunter2" >>],
                                        [key |-> "data-auth", value |-> << "k" >>] >>)] } }
  \cup
  { [DOMEvent(1, "1", 0, GetMutationType(m),
              Descriptor(m.tag, << >>, << m.tag >>, << >>),
              BuildPayload([id |-> 1, record |-> m]))
       EXCEPT !.domSnapshot = << Fragment(<< m.tag >>, << >>, << >>) >>] :
      m \in { r \in MutationSamples : r.type = "childList" } }

\* the numbers the orchestrator may write into the returned event
ProcessNumbers == { 0, 2 }

\* DOMChronicle.handleEvent's call of process on the event object e, and its
\* write of the sequence number: the event given, the event returned, and
\* the given event as it reads afterwards.  The engine is constructed with
\* no rules and process is defined on it before any loadRules.
ProcessEvent(e, seq) ==
  /\ LET done == ProcessAndNumber(rules, compiledRegex, StoreEvent(e), 1, seq)
     IN /\ probeIn' = << e >>
        /\ probeOut' = << Deref(done.heap, done.ref), Deref(done.heap, 1) >>
  /\ UNCHANGED << isRecording, sessionId, config, sequence, eventBuffer,
                  flushInterval, rules, compiledRegex, mcObserver,
                  mcSessionId, mcSequence, batchBuffer, batchTimeout,
                  eventCapture, captures, inFlight, currentSession,
                  activeTabId, sessions, persisted, recSession, accepted,
                  ceilingStops, nextId, nextSession, pageVars >>

NextProcess ==
  \/ \E c \in ProcessRuleSets : LoadRules(c)
  \/ \E e \in ProcessEvents, seq \in ProcessNumbers : ProcessEvent(e, seq)

SpecProcess == Init /\ [][NextProcess]_vars


\* ------------------------------------------------- reproduction steps
\* the symbols whose text begins with '[' and ends with ']': the replacement
\* tags of the rules
TagSymbols ==
  { "[PASSWORD]", "[HIDDEN]", "[EMAIL]", "[PHONE]", "[SSN]", "[CARD]", "[IP]",
    "[CVV]", "[TOKEN]", "[WORD]", "[BROKEN]", "[MAILFIELD]", "[PIN]" }

\* value.startsWith('[') and value.endsWith(']'), on the symbols of a text
StartsWithBracket(text) == text # << >> /\ text[1] \in TagSymbols \cup { "[" }
EndsWithBracket(text) == text # << >> /\ text[Len(text)] \in TagSymbols \cup { "]" }

\* templates.ts truncate, lengths counted in symbols
Truncate(text, maxLength) ==
  IF Len(text) <= maxLength THEN text
  ELSE SubSeq(text, 1, maxLength - 3) \o << "..." >>

\* MarkdownExporter.eventToStep: the text of the step, Null for no step
EventToStep(event) ==
  LET targetLabel == IF event.target.label # << >> THEN event.target.label
                     ELSE event.target.cssSelector
      quoted == << "\"" >> \o Truncate(targetLabel, 30) \o << "\"" >>
  IN CASE event.type = "user:click" -> << "Click" >> \o quoted
       [] event.type = "user:input" ->
            IF StartsWithBracket(event.payload.value)
               /\ EndsWithBracket(event.payload.value)
            THEN << "Fill" >> \o quoted \o << "with" >> \o event.payload.value
            ELSE << "Fill" >> \o quoted \o << "with", "value" >>
       [] event.type = "mutation:add" -> << "Observe new element in" >> \o quoted
       [] event.type = "mutation:remove" ->
            << "Observe element removed from" >> \o quoted
       [] OTHER -> Null

\* an event recorded, redacted by the orchestrator, stored, and turned into
\* its reproduction step by the exporter: the event as recorded, the event
\* as stored and the step
ExportStep(e) ==
  /\ rules # << >>
  /\ probeIn' = << e >>
  /\ probeOut' = << Process(rules, compiledRegex, e),
                    EventToStep(Process(rules, compiledRegex, e)) >>
  /\ UNCHANGED << isRecording, sessionId, config, sequence, eventBuffer,
                  flushInterval, rules, compiledRegex, mcObserver,
                  mcSessionId, mcSequence, batchBuffer, batchTimeout,
                  eventCapture, captures, inFlight, currentSession,
                  activeTabId, sessions, persisted, recSession, accepted,
                  ceilingStops, nextId, nextSession, pageVars >>

NextExport ==
  \/ \E c \in ProcessRuleSets : LoadRules(c)
  \/ \E e \in ProcessEvents : ExportStep(e)

SpecExport == Init /\ [][NextExport]_vars


\* ------------------------------------------------------------ the diff
\* String.prototype.split('\n'): the lines of a text, a text without line
\* break (the empty text too) being one line
RECURSIVE Split(_)
Split(text) ==
  LET breaks == { k \in 1..Len(text) : text[k] = "\n" }
  IN IF breaks = {} THEN << text >>
     ELSE LET first == CHOOSE k \in breaks : \A j \in breaks : k <= j
          IN << SubSeq(text, 1, first - 1) >>
             \o Split(SubSeq(text, first + 1, Len(text)))

\* Array.prototype.join('\n')
RECURSIVE Join(_)
Join(lines) ==
  IF lines = << >> THEN << >>
  ELSE IF Len(lines) = 1 THEN lines[1]
  ELSE lines[1] \o << "\n" >> \o Join(Tail(lines))

\* Array.prototype.includes
ArrayIncludes(lines, line) == \E k \in 1..Len(lines) : lines[k] = line

\* formatUnifiedDiff with the two loops in the other order: added lines
\* first, removed lines after them
FormatUnifiedDiffAddedFirst(before, after) ==
  LET beforeLines == Split(before)
      afterLines == Split(after)
      removed == SelectSeq(beforeLines, LAMBDA line : ~ArrayIncludes(afterLines, line))
      added == SelectSeq(afterLines, LAMBDA line : ~ArrayIncludes(beforeLines, line))
  IN Join([k \in 1..Len(added) |-> << "+", " " >> \o added[k]]
          \o [k \in 1..Len(removed) |-> << "-", " " >> \o removed[k]])

\* formatUnifiedDiff that keeps the lines found on both sides as context
\* lines, behind two spaces
FormatUnifiedDiffWithContext(before, after) ==
  LET beforeLines == Split(before)
      afterLines == Split(after)
      removed == SelectSeq(beforeLines, LAMBDA line : ~ArrayIncludes(afterLines, line))
  IN Join([k \in 1..Len(removed) |-> << "-", " " >> \o removed[k]]
          \o [k \in 1..Len(afterLines) |->
                (IF ArrayIncludes(beforeLines, afterLines[k])
                 THEN << " ", " " >> ELSE << "+", " " >>) \o afterLines[k]])

\* templates.ts formatUnifiedDiff
FormatUnifiedDiff(before, after) ==
  LET beforeLines == Split(before)
      afterLines == Split(after)
      removed == SelectSeq(beforeLines, LAMBDA line : ~ArrayIncludes(afterLines, line))
      added == SelectSeq(afterLines, LAMBDA line : ~ArrayIncludes(beforeLines, line))
  IN Join([k \in 1..Len(removed) |-> << "-", " " >> \o removed[k]]
          \o [k \in 1..Len(added) |-> << "+", " " >> \o added[k]])

\* the texts diffed: characters and line breaks, up to MaxText long
MaxText == 3

DiffTexts ==
  UNION { [1..n -> { "a", "b", "\n" }] : n \in 0..MaxText }

DiffBefores == DiffTexts

\* a call of formatUnifiedDiff: its arguments and its result.  The function
\* keeps no state, so a behaviour holds one call.
FormatDiff(before, after) ==
  /\ probeIn = << >>
  /\ probeIn' = << before, after >>
  /\ probeOut' = << FormatUnifiedDiff(before, after) >>
  /\ UNCHANGED << isRecording, sessionId, config, sequence, eventBuffer,
                  flushInterval, rules, compiledRegex, mcObserver,
                  mcSessionId, mcSequence, batchBuffer, batchTimeout,
                  eventCapture, captures, inFlight, currentSession,
                  activeTabId, sessions, persisted, recSession, accepted,
                  ceilingStops, nextId, nextSession, pageVars >>

NextDiff == \E before \in DiffBefores, after \in DiffTexts : FormatDiff(before, after)

SpecDiff == Init /\ [][NextDiff]_vars


\* ------------------------------------------------------------ sanitizer
\* sanitizer.ts SANITIZE_CONFIG, the attribute lists
FORBID_ATTR ==
  { "onclick", "ondblclick", "onmousedown", "onmouseup", "onmouseover",
    "onmouseout", "onmousemove", "onkeydown", "onkeyup", "onkeypress",
    "onfocus", "onblur", "onchange", "onsubmit", "onreset", "onload",
    "onerror", "onabort", "onscroll", "onresize", "style" }

ALLOWED_ATTR ==
  { "class", "id", "href", "src", "alt", "title", "type", "name", "value",
    "placeholder", "disabled", "readonly", "checked", "selected",
    "role", "aria-label", "aria-labelledby", "aria-describedby", "aria-hidden",
    "data-testid", "data-cy", "data-test",
    "for", "action", "method", "target", "rel",
    "width", "height", "colspan", "rowspan" }

\* key.startsWith('aria-'), over the attribute names of the model
AriaNames ==
  { "aria-label", "aria-labelledby", "aria-describedby", "aria-hidden",
    "aria-expanded" }

\* sanitizeAttributes, the loop body: is the entry copied to the result?
KeepsAttribute(entry) ==
  /\ entry.key \notin FORBID_ATTR
  /\ ~( /\ entry.key \in { "href", "src" }
        /\ \/ StartsWith(entry.value, << "javascript:" >>)
           \/ StartsWith(entry.value, << "data:" >>) )
  /\ entry.key \in ALLOWED_ATTR \cup AriaNames

\* sanitizer.ts sanitizeAttributes
SanitizeAttributes(attrs) == SelectSeq(attrs, KeepsAttribute)


\* --------------------------------------------------------- the timeline
\* number of sessions a behaviour of the export may start
MaxSessions == 2

\* templates.ts EVENT_TYPE_LABELS
EVENT_TYPE_LABELS ==
  ("mutation:add" :> "[MUTATION] Element Added")
  @@ ("mutation:remove" :> "[MUTATION] Element Removed")
  @@ ("mutation:attribute" :> "[MUTATION] Attribute Changed")
  @@ ("mutation:text" :> "[MUTATION] Text Changed")
  @@ ("user:click" :> "[ACTION] Click")
  @@ ("user:input" :> "[ACTION] Input")
  @@ ("user:scroll" :> "[ACTION] Scroll")
  @@ ("user:navigation" :> "[NAV] Navigation")
  @@ ("user:focus" :> "[ACTION] Focus")
  @@ ("user:blur" :> "[ACTION] Blur")
  @@ ("network:xhr" :> "[NETWORK] XHR Request")
  @@ ("network:fetch" :> "[NETWORK] Fetch Request")
  @@ ("error:js" :> "[ERROR] JavaScript Error")
  @@ ("error:console" :> "[ERROR] Console Error")

\* templates.ts formatRelativeTime: minutes, seconds and milliseconds of the
\* elapsed time (the padding of the digits is left out)
FormatRelativeTime(timestampMs, baseMs) ==
  LET elapsed == timestampMs - baseMs
  IN << elapsed \div 60000, (elapsed % 60000) \div 1000, elapsed % 1000 >>

\* indexeddb.ts getSessionEvents: the events of the index session-sequence
\* between [sid, 0] and [sid, MAX_SAFE_INTEGER], in the order of the index
\* (by sequence, and by the primary key id among equal sequences)
RECURSIVE InIndexOrder(_)
InIndexOrder(events) ==
  IF events = {} THEN << >>
  ELSE LET first == CHOOSE e \in events :
                      \A o \in events :
                         \/ e.sequence < o.sequence
                         \/ e.sequence = o.sequence /\ e.id <= o.id
       IN << first >> \o InIndexOrder(events \ { first })

GetSessionEvents(w, sid) ==
  InIndexOrder({ e \in w.persisted : e.sessionId = sid /\ e.sequence >= 0 })

\* MarkdownExporter.describeEvent without a fallback for the types it has
\* no case for
DescribeEventNoFallback(event) ==
  LET targetLabel == IF event.target.label # << >>
                     THEN << "\"" >> \o Truncate(event.target.label, 50) \o << "\"" >>
                     ELSE event.target.tagName
      selector == << "(" >> \o event.target.cssSelector \o << ")" >>
  IN CASE event.type = "user:click" ->
            << "User clicked" >> \o targetLabel \o selector
       [] event.type = "mutation:add" ->
            << ToString(Len(event.payload.addedNodes)), "added to" >> \o selector
       [] OTHER -> << >>

\* MarkdownExporter.describeEvent: the words of the description (the
\* modifiers of a click, the positions of a scroll and the diff blocks of a
\* mutation are not part of the modelled payload; payload.focused is what
\* handleFocus sets and handleBlur clears)
DescribeEvent(event) ==
  LET targetLabel == IF event.target.label # << >>
                     THEN << "\"" >> \o Truncate(event.target.label, 50) \o << "\"" >>
                     ELSE event.target.tagName
      selector == << "(" >> \o event.target.cssSelector \o << ")" >>
      fieldName == IF event.target.label # << >> THEN event.target.label
                   ELSE << "input field" >>
  IN CASE event.type = "user:click" ->
            << "User clicked" >> \o targetLabel \o selector
       [] event.type = "user:input" ->
            << "User typed in" >> \o fieldName \o selector
            \o ( IF StartsWithBracket(event.payload.value)
                    /\ EndsWithBracket(event.payload.value)
                 THEN << "Value:" >> \o event.payload.value \o << "(redacted)" >>
                 ELSE IF event.payload.value # << >>
                      THEN << "Value:" >> \o Truncate(event.payload.value, 100)
                      ELSE << >> )
       [] event.type \in { "user:focus", "user:blur" } ->
            << "User",
               IF event.type = "user:focus" THEN "focused on" ELSE "left" >>
            \o targetLabel \o selector
       [] event.type = "user:scroll" -> << "Scrolled to position" >>
       [] event.type = "user:navigation" -> << "Navigated to:" >>
       [] event.type = "mutation:add" ->
            << ToString(Len(event.payload.addedNodes)), "added to" >> \o selector
       [] event.type = "mutation:remove" ->
            << ToString(Len(event.payload.removedNodes)), "removed from" >> \o selector
       [] event.type = "mutation:attribute" ->
            << "Attribute changed on" >> \o targetLabel
       [] event.type = "mutation:text" ->
            << "Text content changed in" >> \o targetLabel
       [] OTHER -> << "Event:", event.type >>

\* MarkdownExporter.renderDOMFragment with the default maxDOMFragmentLength
\* of 500: Null for no fragment (lengths counted in symbols; the fragments
\* of the samples are all of ten characters or more)
RenderDOMFragment(event) ==
  IF event.domSnapshot = << >> THEN Null
  ELSE LET html == Truncate(event.domSnapshot[1].html, 500)
       IN IF html = << >> THEN Null ELSE html

\* MarkdownExporter.renderEvent: the block of an event in a tuple, the empty
\* tuple for null
RenderEvent(event, baseTime) ==
  LET time == FormatRelativeTime(event.timestamp + baseTime, baseTime)
      label == IF event.type \in DOMAIN EVENT_TYPE_LABELS
               THEN << EVENT_TYPE_LABELS[event.type] >>
               ELSE << "[", event.type, "]" >>
      description == DescribeEvent(event)
      domFragment == RenderDOMFragment(event)
  IN IF description = << >> THEN << >>
     ELSE << [time |-> time, label |-> label, description |-> description,
              fragment |-> domFragment] >>

\* MarkdownExporter.renderInitialLoad
RenderInitialLoad(sid) ==
  [time |-> << 0, 0, 0 >>, label |-> << "[ACTION] Page Load" >>,
   description |-> << "Initial page loaded:", sid >>, fragment |-> Null]

\* MarkdownExporter.renderTimeline: the blocks it joins
RECURSIVE RenderedEvents(_, _)
RenderedEvents(events, baseTime) ==
  IF events = << >> THEN << >>
  ELSE RenderEvent(Head(events), baseTime)
       \o RenderedEvents(Tail(events), baseTime)

RenderTimeline(sid, baseTime, events) ==
  << RenderInitialLoad(sid) >> \o RenderedEvents(events, baseTime)

\* the events a capturer may hand to the store: a type the exporter
\* describes, one it only has a label for, and one it does not know
TimelineSamples ==
  { [type |-> "user:click", sequence |-> 0, timestamp |-> 1500],
    [type |-> "mutation:add", sequence |-> 1, timestamp |-> 1500],
    [type |-> "error:js", sequence |-> 0, timestamp |-> 61001],
    [type |-> "page:custom", sequence |-> 1, timestamp |-> 61001] }
\* the times sessions start at
SessionStarts == { 7000 }

TimelineEvent(id, sid, seq, type, timestamp) ==
  DOMEvent(id, sid, seq, type, ClickSample.target,
           Payload(IF type = "user:click" THEN "click" ELSE "mutation", "", << >>))
  @@ [timestamp |-> timestamp]

\* background.ts handleStartRecording, the session manager's part
TimelineStart ==
  /\ probeIn = << >>
  /\ currentSession = Null
  /\ nextSession <= MaxSessions
  /\ Commit(StartSession(World, ToString(nextSession)))
  /\ nextSession' = nextSession + 1
  /\ UNCHANGED nextId

\* background.ts handleStopRecording, the session manager's part
TimelineStop ==
  /\ probeIn = << >>
  /\ currentSession # Null
  /\ Commit(StopSession(World))
  /\ UNCHANGED << nextId, nextSession >>

\* background.ts handleStoreEvents with one event of the active session
TimelineStore(sample) ==
  /\ probeIn = << >>
  /\ currentSession # Null
  /\ nextId <= MaxEvents
  /\ Commit(StoreEvents(World,
                        << TimelineEvent(nextId, currentSession,
                                         sample.sequence, sample.type,
                                         sample.timestamp) >>, TRUE))
  /\ nextId' = nextId + 1
  /\ UNCHANGED nextSession

\* background.ts handleExportSession of a session there is: the session
\* exported, and the blocks of the timeline with the answer of getEventCount
ExportSession(sid, startedAt) ==
  /\ probeIn = << >>
  /\ sid \in DOMAIN sessions
  /\ probeIn' = << sid >>
  /\ probeOut' = << RenderTimeline(sid, startedAt,
                                   GetSessionEvents(World, sid)),
                    GetEventCount(World, sid) >>
  /\ UNCHANGED << isRecording, sessionId, config, sequence, eventBuffer,
                  flushInterval, rules, compiledRegex, mcObserver,
                  mcSessionId, mcSequence, batchBuffer, batchTimeout,
                  eventCapture, captures, inFlight, currentSession,
                  activeTabId, sessions, persisted, recSession, accepted,
                  ceilingStops, nextId, nextSession, pageVars >>

NextTimeline ==
  \/ TimelineStart
  \/ TimelineStop
  \/ \E sample \in TimelineSamples : TimelineStore(sample)
  \/ \E sid \in DOMAIN sessions, at \in SessionStarts : ExportSession(sid, at)

SpecTimeline == Init /\ [][NextTimeline]_vars


\* ------------------------------------------------ the times of the timeline
\* milliseconds in a tick of the clock
TickMs == 20500

\* Date.now(), and performance.now(): the milliseconds since the page has
\* loaded (its time origin)
DateNow == now * TickMs
PerformanceNow == ( now - StartTime ) * TickMs

\* session-manager.ts startSession, with the startedAt it gives the session
ClockStart ==
  /\ probeIn = << >>
  /\ currentSession = Null
  /\ nextSession <= MaxSessions
  /\ LET sid == ToString(nextSession)
     IN Commit([StartSession(World, sid) EXCEPT
                  !.sessions[sid] = @ @@ [startedAt |-> DateNow]])
  /\ nextSession' = nextSession + 1
  /\ UNCHANGED nextId

\* an event of the active session, which emit or createEvent has stamped
\* with performance.now(), is stored; capturedAt is a history field, the
\* time of day of the capture
ClockStore(type) ==
  /\ probeIn = << >>
  /\ currentSession # Null
  /\ nextId <= MaxEvents
  /\ Commit(StoreEvents(World,
                        << TimelineEvent(nextId, currentSession, nextId, type,
                                         PerformanceNow)
                             @@ [capturedAt |-> DateNow] >>, TRUE))
  /\ nextId' = nextId + 1
  /\ UNCHANGED nextSession

\* time passes on the page and in the service worker
ClockTick ==
  /\ probeIn = << >>
  /\ Tick

NextClock ==
  \/ ClockStart
  \/ ClockTick
  \/ \E type \in { "user:click", "mutation:add" } : ClockStore(type)
  \/ \E sid \in DOMAIN sessions : ExportSession(sid, sessions[sid].startedAt)

SpecClock == Init /\ [][NextClock]_vars


\* ------------------------------------------------------------ properties
Ids(events) == { events[k].id : k \in 1..Len(events) }

InFlightIds == UNION { Ids(m.events) : m \in inFlight }

PersistedIds == { e.id : e \in persisted }

IsMutation(e) == e.payload.kind = "mutation"

\* C1: in every session the events placed in the outbound buffer carry the
\* sequence numbers 0, 1, 2, ... in acceptance order, and the counter is
\* always the number of events accepted in the session last started: start()
\* resets it and a rejected event consumes no number.
C1_SequenceGapFree ==
  /\ \A s \in DOMAIN accepted :
       \A k \in 1..Len(accepted[s]) : accepted[s][k].sequence = k - 1
  /\ recSession # Null => sequence = Len(accepted[recSession])

\* a second session has numbered its events from 0 again, after a first one
\* that accepted several
C1_Witness ==
  /\ DOMAIN accepted = { "1", "2" }
  /\ Len(accepted["1"]) >= 2
  /\ Len(accepted["2"]) >= 2

\* C2 (as claimed): a STOP_RECORDING that finds a non-empty micro-batch with
\* its flush timer pending puts every notification of the batch that
\* classifies to an event into the outbound buffer.
C2_StopDrainsBatch ==
  [][ ( /\ StopRecording
        /\ activeTabId
        /\ isRecording
        /\ batchTimeout = "pending"
        /\ sequence + Len(batchBuffer) <= MAX_EVENTS_PER_SESSION )
      => \A k \in 1..Len(batchBuffer) :
           CreateEvent(World, batchBuffer[k]) # << >>
             => batchBuffer[k].id \in Ids(accepted'[recSession]) ]_vars

\* C3 (as claimed): a STOP_RECORDING that finds a debounced input pending
\* emits it: the input is accepted into the outbound buffer.
C3_StopEmitsDebounced ==
  [][ ( /\ StopRecording
        /\ activeTabId
        /\ isRecording
        /\ eventCapture # Null
        /\ sequence < MAX_EVENTS_PER_SESSION )
      => ( captures[eventCapture].debounce # << >>
             => captures[eventCapture].debounce[1].id \in Ids(accepted'[recSession]) )
    ]_vars

\* C4 (as claimed): every event in the outbound buffer, in a message to the
\* background, or stored has been returned by RedactionEngine.process.
C4_AllRedacted ==
  /\ \A k \in 1..Len(eventBuffer) : eventBuffer[k].processed
  /\ \A m \in inFlight : \A k \in 1..Len(m.events) : m.events[k].processed
  /\ \A e \in persisted : e.processed


\* the rules of the list that a full-value redaction can come from, for an
\* input of this type on this element
FullValueRules(target, inputType) ==
  { i \in 1..Len(rules) :
      /\ rules[i].enabled
      /\ \/ rules[i].type = "input-type" /\ rules[i].pattern = inputType
         \/ rules[i].type = "selector" /\ SelectorRuleMatches(rules[i], target) }

HasInputTypeRule(inputType) ==
  \E i \in 1..Len(rules) :
    rules[i].enabled /\ rules[i].type = "input-type" /\ rules[i].pattern = inputType

\* C5: for an input event whose input type is the pattern of an enabled
\* input-type rule, process returns the replacement of the first matching
\* enabled rule of the list as the whole value, untouched by the regex
\* cascade, so two events that differ in their value only get the same
\* redacted value; with the default password rule that value is [PASSWORD].
C5_InputTypeFullRedaction ==
  ( probeIn # << >> /\ HasInputTypeRule(probeIn[1].payload.inputType) ) =>
    LET target == probeIn[1].target
        inputType == probeIn[1].payload.inputType
        hits == FullValueRules(target, inputType)
        first == CHOOSE i \in hits : \A j \in hits : i <= j
    IN /\ probeOut[1].payload.value = rules[first].replacement
       /\ probeOut[2].payload.value = probeOut[1].payload.value
       /\ inputType = "password" => probeOut[1].payload.value = << "[PASSWORD]" >>

\* two password inputs with different values, one of them a text a regex rule
\* of the list rewrites, were both redacted
C5_Witness ==
  /\ probeIn # << >>
  /\ probeIn[1].payload.inputType = "password"
  /\ probeIn[1].payload.value = << "[PASSWORD]" >>
  /\ probeIn[2].payload.value = << "hunter2" >>
  /\ \E i \in 1..Len(rules) : rules[i].id = "custom-bracket"
  /\ probeOut[2].payload.value = << "[PASSWORD]" >>

\* C6 (as claimed): every event accepted into the outbound buffer is in the
\* buffer, in an unanswered STORE_EVENTS message, or stored.
C6_AcceptedNeverDropped ==
  \A s \in DOMAIN accepted :
    Ids(accepted[s]) \subseteq Ids(eventBuffer) \cup InFlightIds \cup PersistedIds

\* the append of message m failed: the message was rejected, or the
\* background handled it and did not store its events
AppendFailed(m) ==
  \/ FlushRejected(m)
  \/ FlushHandled(m, TRUE) /\ ~(Ids(m.events) \subseteq { e.id : e \in persisted' })
  \/ FlushHandled(m, FALSE)

\* C7 (as claimed): when the append of a flush fails, its events are put back
\* at the head of the pending buffer, in order, ahead of the events accepted
\* meanwhile.
C7_FailedFlushRequeued ==
  [][ \A m \in inFlight : AppendFailed(m) => eventBuffer' = m.events \o eventBuffer
    ]_vars

\* C8 (as claimed): the outbound buffer never holds more than
\* MAX_EVENTS_IN_MEMORY events.
C8_BufferBounded == Len(eventBuffer) <= MAX_EVENTS_IN_MEMORY

\* C9 (as claimed): once a session that reached the event ceiling has been
\* stopped by checkRateLimit and its flushes are answered, its record carries
\* the end time and every event accepted in it is stored.
C9_CeilingStopGraceful ==
  \A s \in ceilingStops :
    ( ~isRecording /\ recSession = s /\ inFlight = {} /\ eventBuffer = << >> )
      => /\ sessions[s].endedAt
         /\ Ids(accepted[s]) \subseteq PersistedIds
         /\ sessions[s].eventCount = Len(accepted[s])

\* the mutation events of a sequence of events, by notification id
MutationIds(events) ==
  [k \in { j \in 1..Len(events) : IsMutation(events[j]) } |-> events[k].id]

\* C10: the events made from structural-change notifications are accepted in
\* the order in which their notifications were delivered: in every session a
\* later sequence number goes with a later notification, and a later session
\* accepts no notification delivered before one an earlier session accepted.
C10_MutationFifo ==
  /\ \A s \in DOMAIN accepted :
       LET ids == MutationIds(accepted[s])
       IN \A i, j \in DOMAIN ids :
            i < j => /\ ids[i] < ids[j]
                     /\ accepted[s][i].sequence < accepted[s][j].sequence
  /\ \A m, n \in 1..nextSession :
       ( m < n /\ ToString(m) \in DOMAIN accepted /\ ToString(n) \in DOMAIN accepted )
         => LET early == MutationIds(accepted[ToString(m)])
                late == MutationIds(accepted[ToString(n)])
            IN \A i \in DOMAIN early, j \in DOMAIN late : early[i] < late[j]

\* a session has accepted the events of two notifications, and the batcher
\* holds nothing more
C10_Witness ==
  \E s \in DOMAIN accepted :
    /\ Cardinality(DOMAIN MutationIds(accepted[s])) >= 2
    /\ batchTimeout = "null"
    /\ batchBuffer = << >>

\* the events made from interaction notifications
IsInteraction(e) == e.payload.kind \in { "click", "input" }

\* the interaction events of a sequence of events, by notification id
InteractionIds(events) ==
  [k \in { j \in 1..Len(events) : IsInteraction(events[j]) } |-> events[k].id]

\* C11 (as claimed): the events made from interaction notifications are
\* accepted, and so numbered, in the order in which the notifications
\* occurred.
C11_InteractionFifo ==
  \A s \in DOMAIN accepted :
    LET ids == InteractionIds(accepted[s])
    IN \A i, j \in DOMAIN ids : i < j => ids[i] < ids[j]

\* the pairs of id and sequence number of the numbered events the pipeline
\* holds: buffered, in a message, or stored
Numbered ==
  { << e.id, e.sequence >> :
      e \in { eventBuffer[k] : k \in 1..Len(eventBuffer) }
            \cup UNION { { m.events[k] : k \in 1..Len(m.events) } : m \in inFlight }
            \cup persisted }

\* C12: the sequence number an event was given is never changed afterwards,
\* whatever arrives later at the orchestrator (the reachable inversion
\* between an input and a later structural change is C12_Witness).
C12_SequenceNeverReassigned ==
  [][ \A p \in Numbered : \A q \in Numbered' : p[1] = q[1] => p[2] = q[2] ]_vars

\* an input notification occurred before a structural-change notification
\* and its event has the larger sequence number
C12_Witness ==
  \E s \in DOMAIN accepted :
    \E i, j \in 1..Len(accepted[s]) :
      /\ accepted[s][i].type = "user:input"
      /\ IsMutation(accepted[s][j])
      /\ accepted[s][i].id < accepted[s][j].id
      /\ accepted[s][i].sequence > accepted[s][j].sequence
      /\ << accepted[s][i].id, accepted[s][i].sequence >> \in Numbered
      /\ << accepted[s][j].id, accepted[s][j].sequence >> \in Numbered

\* C13: process returns a new event and leaves the event it was given as it
\* was: target, payload, snapshot and sequence number of the given event read
\* the same after the call and after the orchestrator has numbered the
\* returned event, which is the redacted event with that number.
C13_ProcessLeavesInput ==
  probeIn # << >> =>
    /\ probeOut[2] = probeIn[1]
    /\ \E seq \in ProcessNumbers :
         probeOut[1] = [Process(rules, compiledRegex, probeIn[1]) EXCEPT
                          !.sequence = seq]

\* an event with a label, a value and a number that process and the
\* orchestrator changed in the returned event
C13_Witness ==
  /\ probeIn # << >>
  /\ probeIn[1].type = "user:input"
  /\ probeOut[1].target.label # probeIn[1].target.label
  /\ probeOut[1].payload.value # probeIn[1].payload.value
  /\ probeOut[1].sequence # probeIn[1].sequence

\* the fields of an event that redaction writes
Redactable(e) ==
  [label |-> e.target.label, value |-> e.payload.value,
   domSnapshot |-> e.domSnapshot]

\* C14: redaction is idempotent: processing the event returned by process
\* again, under the same loaded rules, changes none of label, input value,
\* snapshot html, text and attributes.
C14_ProcessIdempotent ==
  probeIn # << >> =>
    Redactable(Process(rules, compiledRegex, probeOut[1])) = Redactable(probeOut[1])

\* what one rule does to a text on its own: an enabled regex rule with a
\* pattern that compiles rewrites every match, any other rule leaves the text
PerRule(rule, text) ==
  IF rule.enabled /\ rule.type = "regex" /\ rule.pattern.valid
  THEN ReplaceAlternatives(text, rule.pattern.alts, rule.replacement)
  ELSE text

IsEnabledRegex(rule) == rule.enabled /\ rule.type = "regex"

RECURSIVE FoldLeft(_, _)
\* the left-to-right fold of the per-rule replacements of `rs' over `text':
\* the last rule rewrites what the rules before it made of the text
FoldLeft(rs, text) ==
  IF rs = << >> THEN text
  ELSE PerRule(rs[Len(rs)], FoldLeft(SubSeq(rs, 1, Len(rs) - 1), text))

\* the texts of an event that process hands to redactText, by place
CascadeTexts(e) ==
  [label |-> e.target.label,
   value |-> IF e.type = "user:input" THEN e.payload.value ELSE << >>,
   html |-> IF e.domSnapshot = << >> THEN << >> ELSE e.domSnapshot[1].html,
   text |-> IF e.domSnapshot = << >> THEN << >> ELSE e.domSnapshot[1].text]

\* the places whose text process hands to redactText for event e
CascadePlaces(rs, e) ==
  { "label", "html", "text" } \cup
  ( IF e.type = "user:input"
       /\ ~ShouldRedactInputType(rs, e.target, e.payload.inputType)
    THEN { "value" } ELSE {} )

\* C15: redactText applies the enabled regex rules in list order, each on
\* the output of the one before: every text process hands to it comes back
\* as the left-to-right fold of the per-rule replacements over the loaded
\* list, which is also the fold over the enabled regex rules alone.
C15_RedactTextIsFold ==
  probeIn # << >> =>
    \A place \in CascadePlaces(rules, probeIn[1]) :
      /\ CascadeTexts(probeOut[1])[place]
           = FoldLeft(rules, CascadeTexts(probeIn[1])[place])
      /\ CascadeTexts(probeOut[1])[place]
           = FoldLeft(SelectSeq(rules, IsEnabledRegex),
                      CascadeTexts(probeIn[1])[place])

\* two rules of which the second matches the replacement of the first, and a
\* value the first matches: the result is the second rule's replacement
C15_Witness ==
  /\ probeIn # << >>
  /\ \E i, j \in 1..Len(rules) :
       i < j /\ rules[i] = WordRule /\ rules[j] = ChainRule
  /\ "value" \in CascadePlaces(rules, probeIn[1])
  /\ probeIn[1].payload.value = << "hunter2" >>
  /\ probeOut[1].payload.value = << "###" >>

\* an enabled regex rule whose pattern new RegExp rejects
IsInvalidRegex(rule) == rule.enabled /\ rule.type = "regex" /\ ~rule.pattern.valid

IsNotInvalidRegex(rule) == ~IsInvalidRegex(rule)

\* the custom rules loadRules was given, read back from the loaded list
LoadedCustomRules ==
  SubSeq(rules, Len(DEFAULT_REDACTION_RULES) + 1, Len(rules))

\* C16: loadRules on a list with an enabled regex rule of invalid pattern
\* runs to its end: the compiled regexes are those of every other enabled
\* regex rule, the invalid rule is never applied (its replacement appears in
\* no text process returns), and process redacts as it does under the list
\* without that rule.
C16_InvalidRegexSkipped ==
  LET kept == SelectSeq(LoadedCustomRules, IsNotInvalidRegex)
  IN ( rules # << >> /\ kept # LoadedCustomRules ) =>
       /\ compiledRegex
            = { rules[i].id : i \in { j \in 1..Len(rules) :
                  IsEnabledRegex(rules[j]) /\ rules[j].pattern.valid } }
       /\ \A i \in 1..Len(rules) :
            IsInvalidRegex(rules[i]) => rules[i].id \notin compiledRegex
       /\ probeIn # << >> =>
            /\ \A i \in 1..Len(rules), place \in DOMAIN CascadeTexts(probeOut[1]) :
                 IsInvalidRegex(rules[i]) =>
                   ~Includes(CascadeTexts(probeOut[1])[place], rules[i].replacement)
            /\ Redactable(probeOut[1])
                 = Redactable(Process(LoadRulesList(kept), LoadRulesCompiled(kept),
                                      probeIn[1]))

\* an invalid rule ahead of a valid one in the list, and a value both
\* patterns are written for: the valid rule's replacement is the result
C16_Witness ==
  /\ probeIn # << >>
  /\ \E i, j \in 1..Len(rules) :
       i < j /\ rules[i] = InvalidRule /\ rules[j] = WordRule
  /\ "value" \in CascadePlaces(rules, probeIn[1])
  /\ probeIn[1].payload.value = << "hunter2" >>
  /\ probeOut[1].payload.value = << "[WORD]" >>

\* the fragments an event carries, in order: its snapshot, then the added
\* and the removed nodes of its payload
FragmentsOf(e) == e.domSnapshot \o e.payload.addedNodes \o e.payload.removedNodes

\* fragment `given' as redaction has to return it: html and text through the
\* cascade, each attribute replaced in full under an attribute rule that
\* lists its name and through the cascade otherwise
RedactedFragment(rs, compiled, given) ==
  [html |-> RedactText(rs, compiled, given.html),
   text |-> RedactText(rs, compiled, given.text),
   attributes |->
     [k \in 1..Len(given.attributes) |->
        [key |-> given.attributes[k].key,
         value |-> IF AttributeRuleHits(rs, given.attributes[k].key) # {}
                   THEN rs[CHOOSE i \in AttributeRuleHits(rs, given.attributes[k].key) :
                             \A j \in AttributeRuleHits(rs, given.attributes[k].key) :
                               i <= j].replacement
                   ELSE RedactText(rs, compiled, given.attributes[k].value)]]]

\* C17: every fragment of an event returned by process, the snapshot and
\* the added and removed nodes of a mutation payload alike, is the redacted
\* form of the fragment the event was given with.
C17_FragmentsRedacted ==
  probeIn # << >> =>
    /\ Len(FragmentsOf(probeOut[1])) = Len(FragmentsOf(probeIn[1]))
    /\ \A k \in 1..Len(FragmentsOf(probeIn[1])) :
         FragmentsOf(probeOut[1])[k]
           = RedactedFragment(rules, compiledRegex, FragmentsOf(probeIn[1])[k])

\* the events that have left the pipeline or wait in its outbound buffer
OutboundEvents ==
  { eventBuffer[k] : k \in 1..Len(eventBuffer) }
  \cup UNION { { m.events[k] : k \in 1..Len(m.events) } : m \in inFlight }
  \cup persisted

\* C18: every fragment of an event in the outbound buffer, in a message or
\* stored (its snapshot, its added and removed nodes) is the output of
\* sanitization: it holds no attribute that sanitization removes.
C18_FragmentsSanitized ==
  \A e \in OutboundEvents :
    \A k \in 1..Len(FragmentsOf(e)) :
      SanitizeAttributes(FragmentsOf(e)[k].attributes) = FragmentsOf(e)[k].attributes

\* the generic step for an input on the element of event e, and the step
\* that shows a tag
GenericFill(e) ==
  << "Fill", "\"" >>
  \o (IF e.target.label # << >> THEN e.target.label ELSE e.target.cssSelector)
  \o << "\"", "with", "value" >>

TagFill(e, tag) ==
  << "Fill", "\"" >>
  \o (IF e.target.label # << >> THEN e.target.label ELSE e.target.cssSelector)
  \o << "\"", "with" >> \o tag

\* C19: a reproduction step never echoes an unredacted input value: when no
\* rule replaced the value (it is stored as typed) the step is the generic
\* 'with value' form, and a step that is not the generic form shows the
\* replacement of an enabled rule.
C19_StepsNeverEchoValue ==
  ( probeIn # << >> /\ probeIn[1].type = "user:input" ) =>
    /\ probeOut[1].payload.value = probeIn[1].payload.value
         => probeOut[2] = GenericFill(probeOut[1])
    /\ \/ probeOut[2] = GenericFill(probeOut[1])
       \/ \E i \in 1..Len(rules) :
            rules[i].enabled /\ probeOut[2] = TagFill(probeOut[1], rules[i].replacement)

\* the lines of a text as a reader counts them: the empty text has none
LinesOf(text) == IF text = << >> THEN << >> ELSE Split(text)

\* C20: formatUnifiedDiff("", b) is the lines of b, in b's order, each
\* behind "+ ", and none of its lines begins with '-'.
C20_DiffFromEmpty ==
  ( probeIn # << >> /\ probeIn[1] = << >> ) =>
    /\ probeOut[1]
         = Join([k \in 1..Len(LinesOf(probeIn[2])) |->
                   << "+", " " >> \o LinesOf(probeIn[2])[k]])
    /\ \A k \in 1..Len(LinesOf(probeOut[1])) :
         ~StartsWith(LinesOf(probeOut[1])[k], << "-" >>)

RECURSIVE Marked(_, _, _, _)
\* the lines of `lines' from the k-th on that are no line of `others', in
\* their order, each behind the sign and a space
Marked(lines, others, sign, k) ==
  IF k > Len(lines) THEN << >>
  ELSE ( IF \E j \in 1..Len(others) : others[j] = lines[k]
         THEN << >> ELSE << << sign, " " >> \o lines[k] >> )
       \o Marked(lines, others, sign, k + 1)

\* C21: formatUnifiedDiff(before, after) is one '-' line for each line of
\* before that is no line of after, in before's order, then one '+' line for
\* each line of after that is no line of before, in after's order, and
\* nothing else: a line found on both sides is not output under any sign.
C21_DiffRemovedThenAdded ==
  probeIn # << >> =>
    LET beforeLines == Split(probeIn[1])
        afterLines == Split(probeIn[2])
        expected == Marked(beforeLines, afterLines, "-", 1)
                    \o Marked(afterLines, beforeLines, "+", 1)
    IN /\ probeOut[1] = Join(expected)
       /\ expected # << >> =>
            /\ Split(probeOut[1]) = expected
            /\ \A k \in 1..Len(beforeLines), j \in 1..Len(afterLines) :
                 beforeLines[k] = afterLines[j] =>
                   \A n \in 1..Len(Split(probeOut[1])) :
                     /\ Split(probeOut[1])[n] # << "-", " " >> \o beforeLines[k]
                     /\ Split(probeOut[1])[n] # << "+", " " >> \o beforeLines[k]

\* a removed line, an added line, and a line of both sides that stands at
\* different places in the two texts
C21_Witness ==
  /\ probeIn # << >>
  /\ probeIn[1] = << "a", "\n", "b" >>
  /\ probeIn[2] = << "b", "\n" >>
  /\ probeOut[1] = << "-", " ", "a", "\n", "+", " " >>

\* C22: formatUnifiedDiff(a, a) is the empty string, for every text a.
C22_DiffOfEqualTexts ==
  ( probeIn # << >> /\ probeIn[1] = probeIn[2] ) => probeOut[1] = << >>

\* a text of two equal lines diffed with itself
C22_Witness ==
  /\ probeIn # << >>
  /\ probeIn[1] = << "a", "\n", "a" >>
  /\ probeIn[2] = probeIn[1]
  /\ probeOut[1] = << >>


\* the time a heading stands for, in milliseconds
HeadingMillis(time) == time[1] * 60000 + time[2] * 1000 + time[3]

\* the block is the one of the event: its heading carries the event's time,
\* and for a type the exporter has no case for, the generic description
BlockOfEvent(block, e) ==
  /\ HeadingMillis(block.time) = e.timestamp
  /\ e.type \notin { "user:click", "mutation:add" }
       => block.description = << "Event:", e.type >>
  /\ e.type = "user:click" => block.label = << "[ACTION] Click" >>
  /\ e.type = "page:custom" => block.label = << "[", "page:custom", "]" >>

\* C23: the timeline of an exported session is the single page-load block
\* followed by exactly one block per stored event of the session, in the
\* order of the log (by sequence); no event is left out, an event of a type
\* the exporter does not know gets the generic block, and the number of
\* blocks minus one is the event count of the session.
C23_TimelineOneBlockPerEvent ==
  probeIn # << >> =>
    LET sid == probeIn[1]
        blocks == probeOut[1]
        log == { e \in persisted : e.sessionId = sid }
        n == Cardinality(log)
    IN /\ Len(blocks) - 1 = probeOut[2]
       /\ probeOut[2] = n
       /\ blocks[1].label = << "[ACTION] Page Load" >>
       /\ \A k \in 2..Len(blocks) : blocks[k].label # << "[ACTION] Page Load" >>
       /\ \E f \in [1..n -> log] :
            /\ \A i, j \in 1..n : i # j => f[i] # f[j]
            /\ \A i, j \in 1..n : i < j => f[i].sequence <= f[j].sequence
            /\ \A k \in 1..n : BlockOfEvent(blocks[k + 1], f[k])

C23_Witness ==
  /\ probeIn # << >>
  /\ Len(probeOut[1]) = 4
  /\ \E e1, e2 \in persisted :
       /\ e1.sessionId = probeIn[1] /\ e2.sessionId = probeIn[1]
       /\ e1.id < e2.id /\ e1.sequence > e2.sequence
       /\ e1.type = "page:custom" /\ e2.type = "error:js"
  /\ probeOut[1][4].description = << "Event:", "page:custom" >>


\* after the step the content script is not recording session s
ContentStopped(s) == ~(isRecording' /\ sessionId' = s)

\* after the step session s is closed, or the stop that will close it waits
\* for the final flush of the content script
ClosedOrClosing(s) ==
  \/ sessions'[s].endedAt /\ currentSession' # s
  \/ currentSession' = s /\ \E m \in inFlight' : m.caller = "bg"

\* C24: a periodic check that finds the active session at or over
\* SESSION_AUTO_STOP_HOURS stops it the way STOP_RECORDING does: the content
\* script stops and hands its buffer to the final flush, and once that is
\* answered the session is closed, with the event count of the store at
\* that moment; a check that finds the session below the ceiling changes
\* nothing.
C24_AutoStopAtCeiling ==
  [][ probeIn' # << >> =>
        LET check == probeIn'[1]
            s == check.session
        IN IF check.elapsed >= SESSION_AUTO_STOP_HOURS
           THEN /\ ContentStopped(s)
                /\ ClosedOrClosing(s)
                /\ ( ~sessions[s].endedAt /\ sessions'[s].endedAt )
                     => sessions'[s].eventCount =
                          Cardinality({ e \in persisted' : e.sessionId = s })
                /\ probeIn' # probeIn /\ isRecording /\ sessionId = s
                     => /\ eventBuffer' = << >>
                        /\ eventBuffer # << >>
                             => \E m \in inFlight' :
                                  m.caller = "bg" /\ m.events = eventBuffer
           ELSE probeIn' # probeIn
                  => UNCHANGED << isRecording, sessionId, eventBuffer,
                                  flushInterval, mcObserver, eventCapture,
                                  inFlight, currentSession, activeTabId,
                                  sessions, persisted >> ]_vars

C24_Witness ==
  /\ probeIn # << >>
  /\ probeIn[1].elapsed = SESSION_AUTO_STOP_HOURS
  /\ sessions[probeIn[1].session].endedAt
  /\ sessions[probeIn[1].session].eventCount = 2
  /\ currentSession = Null
  /\ ~isRecording


\* the number of notifications given before the k-th emission's burst
BurstStart(k) == IF k = 1 THEN 0 ELSE emitted[k - 1].after

\* C25: the notifications of the input listener fall into bursts, each
\* notification of a burst less than INPUT_DEBOUNCE_MS after the one before;
\* a burst yields exactly one input event, emitted INPUT_DEBOUNCE_MS after
\* the last notification of the burst and carrying that notification's
\* value, and no event is emitted inside a burst.
C25_DebounceOnePerBurst ==
  /\ \A k \in 1..Len(emitted) :
       LET last == emitted[k].after
       IN /\ last > BurstStart(k)
          /\ emitted[k].type = "user:input"
          /\ emitted[k].at = notified[last].at + INPUT_DEBOUNCE_MS
          /\ emitted[k].value = notified[last].value
  /\ \A j \in 1..(Len(notified) - 1) :
       /\ notified[j + 1].at - notified[j].at < INPUT_DEBOUNCE_MS
            => \A k \in 1..Len(emitted) : emitted[k].after # j
       /\ notified[j + 1].at - notified[j].at > INPUT_DEBOUNCE_MS
            => \E k \in 1..Len(emitted) : emitted[k].after = j
  /\ ( notified # << >>
       /\ now > notified[Len(notified)].at + INPUT_DEBOUNCE_MS )
       => emitted # << >> /\ emitted[Len(emitted)].after = Len(notified)

C25_Witness ==
  /\ Len(notified) = 3
  /\ notified[2].at = notified[1].at + 1
  /\ notified[3].at = notified[2].at + 1
  /\ notified[1].value = << "a" >>
  /\ notified[2].value = << "a", "b" >>
  /\ notified[3].value = << "a", "b", "c" >>
  /\ Len(emitted) = 1
  /\ emitted[1].value = << "a", "b", "c" >>
  /\ emitted[1].at = notified[3].at + INPUT_DEBOUNCE_MS


\* the emissions behind the first j notifications, and the last of them
\* (0 for none)
LastEmissionBefore(j) ==
  LET earlier == { k \in 1..Len(emitted) : emitted[k].after < j }
  IN IF earlier = {} THEN 0
     ELSE CHOOSE k \in earlier : \A o \in earlier : o <= k

\* C26: two consecutive scroll emissions are at least SCROLL_THROTTLE_MS
\* apart; a scroll notification outside the window of the last emission is
\* emitted at once, and one inside the window is not lost: the next emission
\* comes at the end of that window, before which a timer for it is pending,
\* and it is the only one there; every emission carries the scroll position
\* of the last notification given.
C26_ThrottleWindow ==
  /\ \A k \in 1..Len(emitted) :
       /\ emitted[k].type = "user:scroll"
       /\ emitted[k].after > 0
       /\ emitted[k].value = notified[emitted[k].after].value
       /\ k > 1 => emitted[k].at - emitted[k - 1].at >= SCROLL_THROTTLE_MS
  /\ \A j \in 1..Len(notified) :
       LET prev == LastEmissionBefore(j)
           inside == prev > 0
                     /\ notified[j].at - emitted[prev].at < SCROLL_THROTTLE_MS
       IN IF inside
          THEN IF prev < Len(emitted)
               THEN emitted[prev + 1].at = emitted[prev].at + SCROLL_THROTTLE_MS
               ELSE /\ throttleTimer # << >>
                    /\ throttleTimer[1].due = emitted[prev].at + SCROLL_THROTTLE_MS
                    /\ now <= throttleTimer[1].due
          ELSE /\ prev < Len(emitted)
               /\ emitted[prev + 1].after = j
               /\ emitted[prev + 1].at = notified[j].at

C26_Witness ==
  /\ Len(notified) = 3
  /\ notified[2].at = notified[1].at + 1
  /\ notified[3].at = notified[1].at + 2
  /\ Len(emitted) = 2
  /\ emitted[1].at = notified[1].at
  /\ emitted[2].at = notified[1].at + SCROLL_THROTTLE_MS
  /\ emitted[2].value = notified[3].value
  /\ emitted[2].value # notified[2].value


\* where in the batch the record with the id is (0 if nowhere)
PlaceInBatch(id) ==
  IF \E k \in 1..Len(batchBuffer) : batchBuffer[k].id = id
  THEN CHOOSE k \in 1..Len(batchBuffer) : batchBuffer[k].id = id
  ELSE 0

\* C27: a delivery appends its records to the batch; with no timer handle
\* held it starts the timer for one window, and with a timer pending it
\* leaves the timer and its time as they are; a timer is not started while
\* one is pending. When the timer runs, one window after the delivery that
\* started it, the batch is emptied, the events made of it are accepted in
\* the order of arrival, the convertible records all being converted when
\* the session takes them, and no timer is pending afterwards.
C27_MicroBatching ==
  [][ /\ Len(batchBuffer') > Len(batchBuffer)
        => /\ SubSeq(batchBuffer', 1, Len(batchBuffer)) = batchBuffer
           /\ batchTimeout = "pending"
                => batchTimeout' = "pending" /\ batchDue' = batchDue
           /\ batchTimeout = "null"
                => batchTimeout' = "pending"
                   /\ batchDue' = now + BATCH_WINDOW_MS
      /\ ( batchTimeout = "pending" /\ batchTimeout' = "null" )
        => /\ now = batchDue
           /\ batchBuffer # << >>
           /\ batchBuffer' = << >>
           /\ recSession # Null
                => LET before == accepted[recSession]
                       after == accepted'[recSession]
                       made == SubSeq(after, Len(before) + 1, Len(after))
                   IN /\ SubSeq(after, 1, Len(before)) = before
                      /\ \A i \in 1..Len(made) : PlaceInBatch(made[i].id) > 0
                      /\ \A i, j \in 1..Len(made) :
                           i < j => PlaceInBatch(made[i].id)
                                      < PlaceInBatch(made[j].id)
                      /\ ( isRecording /\ config # Null
                           /\ sequence + Len(batchBuffer)
                                <= MAX_EVENTS_PER_SESSION )
                           => \A k \in 1..Len(batchBuffer) :
                                ( GetMutationType(batchBuffer[k].record) # ""
                                  /\ ~ShouldIgnore(batchBuffer[k].record.tag) )
                                  => \E i \in 1..Len(made) :
                                       made[i].id = batchBuffer[k].id ]_vars

C27_Witness ==
  /\ batchTimeout = "null"
  /\ batchBuffer = << >>
  /\ isRecording
  /\ now = batchDue
  /\ \E i, j \in 1..Len(accepted[recSession]) :
       /\ i < j
       /\ accepted[recSession][i].type = "mutation:add"
       /\ accepted[recSession][j].type = "mutation:add"


\* C28: while the MutationCapture observes and its batch holds records, its
\* flush timer is pending.
C28_BatchHasTimer ==
  ( mcObserver /\ batchBuffer # << >> ) => batchTimeout = "pending"


\* C29: the state before that an emitted child-list event carries is the one
\* reconstructed in the turn in which its record was delivered (the k-th
\* event comes from the k-th delivered record), whatever happened to the
\* parent between the delivery and the flush.
C29_BeforeSnapshotFromDelivery ==
  /\ Len(emitted) <= Len(notified)
  /\ \A k \in 1..Len(emitted) :
       emitted[k].payload.parentHTMLBefore = notified[k].value

\* an event was emitted whose record's state before, reconstructed on the
\* parent as it is after the flush, is another than the one it carries
C29_Witness ==
  /\ Len(emitted) = 3
  /\ batchBuffer = << >>
  /\ pendingRecords = << >>
  /\ emitted[1].type = "mutation:add"
  /\ emitted[1].payload.parentHTMLBefore = OuterHTML(InitialChildren)
  /\ parentChildren = << "a" >>
  /\ emitted[1].payload.parentHTMLAfter = OuterHTML(<< "a" >>)


\* C30: every add/remove event carries as parentHTMLBefore and
\* parentHTMLAfter the parent's HTML right before and right after the one
\* change of its record, so that of two changes in a row to the parent the
\* after of the first event is the before of the second.
C30_BeforeAfterOfOneChange ==
  \A k \in 1..Len(emitted) :
    /\ emitted[k].payload.parentHTMLBefore = OuterHTML(emitted[k].record.before)
    /\ emitted[k].payload.parentHTMLAfter = OuterHTML(emitted[k].record.after)
    /\ k < Len(emitted)
         => emitted[k].payload.parentHTMLAfter
              = emitted[k + 1].payload.parentHTMLBefore


\* the type the record is to be given ("" for no event)
ClaimedType(record) ==
  IF record.tag \in { "script", "style", "noscript", "link", "meta" } THEN ""
  ELSE IF record.type = "attributes" THEN "mutation:attribute"
  ELSE IF record.type = "characterData" THEN "mutation:text"
  ELSE IF record.type = "childList" /\ record.added >= 1 THEN "mutation:add"
  ELSE IF record.type = "childList" /\ record.removed >= 1 THEN "mutation:remove"
  ELSE ""

GivesEvent(mctx) == ClaimedType(mctx.record) # ""

C32_AcceptedCarrySession ==
  \A s \in DOMAIN accepted :
    \A k \in 1..Len(accepted[s]) : accepted[s][k].sessionId = s


\* the fields of the orchestrator and of its capturers
Orchestrator ==
  << isRecording, sessionId, config, sequence, eventBuffer, flushInterval,
     rules, compiledRegex, mcObserver, mcSessionId, mcSequence, batchBuffer,
     batchTimeout, eventCapture, captures, inFlight >>

C34_RecordingHasSession ==
  isRecording => ( sessionId # Null /\ config # Null )


\* the sessions in storage that have no end time
OpenSessions == { s \in DOMAIN sessions : ~sessions[s].endedAt }

\* C35 (as claimed): at most one session is active at a time: storage never
\* holds two sessions without an end time, also when the handling of two
\* START_RECORDING requests overlaps, and recordingState is 'recording'
\* exactly when a current session exists.
C35_OneActiveSession ==
  /\ Cardinality(OpenSessions) <= 1
  /\ recordingState = "recording" <=> currentSession # Null


\* C36 (as claimed): the eventCount written into a session's record when it
\* is closed is the number of events persisted under its id, and none is
\* persisted under it afterwards: for every closed session the two agree, in
\* every interleaving of the handling of STORE_EVENTS with stopSession.
C36_ClosedCountExact ==
  \A s \in DOMAIN sessions :
    sessions[s].endedAt => sessions[s].eventCount = GetEventCount(World, s)


\* the sequence numbers of the events grow strictly along the list
StrictlyIncreasing(events) ==
  \A i, j \in 1..Len(events) : i < j => events[i].sequence < events[j].sequence

\* C37 (as claimed): the pending outbound buffer is always ordered by
\* strictly increasing sequence number, also after failed flushes were put
\* back while other flushes were in flight, and so is every batch sent.
C37_BufferInSequenceOrder ==
  /\ StrictlyIncreasing(eventBuffer)
  /\ \A m \in inFlight : StrictlyIncreasing(m.events)


\* the rule list the session supplied to loadRules: what follows the defaults
SuppliedRules ==
  SubSeq(rules, Len(DEFAULT_REDACTION_RULES) + 1, Len(rules))

\* the ids of the default rules the supplied list marks as disabled
DisabledDefaultIds ==
  { DEFAULT_REDACTION_RULES[i].id : i \in 1..Len(DEFAULT_REDACTION_RULES) }
    \cap { SuppliedRules[j].id : j \in { k \in 1..Len(SuppliedRules) :
                                           ~SuppliedRules[k].enabled } }

IsNotDisabledDefault(rule) == rule.id \notin DisabledDefaultIds

\* C38 (as claimed): a default rule that the supplied list marks as disabled
\* is not applied: what process returns is what it returns with the rules of
\* those ids taken out of the engine.
C38_DisabledDefaultNotApplied ==
  \A k \in 1..Len(probeOut) :
    probeOut[k] = Process(SelectSeq(rules, IsNotDisabledDefault),
                          compiledRegex \ DisabledDefaultIds, probeIn[k])


\* notification k was on the element and the next one, inside the debounce
\* window, on another element
OvertakenAt(element, k) ==
  /\ Len(notified) > k
  /\ notified[k].target = element
  /\ notified[k + 1].target # element
  /\ notified[k + 1].at - notified[k].at < INPUT_DEBOUNCE_MS

\* an input event for the element was emitted after its notification k
EmittedSince(element, k) ==
  \E e \in 1..Len(emitted) :
    emitted[e].target = element /\ emitted[e].after >= k

\* C39 (as claimed): input on one element and then, within the debounce
\* window, on another leads to an input event for the first element as well.
C39_EachElementEmitted ==
  \A element \in Fields : \A k \in 1..MaxNotifications :
    [] ( OvertakenAt(element, k) => <> EmittedSince(element, k) )


\* C40 (as claimed): in the timeline of an exported session the heading of
\* the block of every event carries the time between the start of the
\* session and the capture of the event, as minutes, seconds in 0..59 and
\* milliseconds in 0..999, whatever the age of the page at the start.
C40_HeadingIsTimeSinceStart ==
  probeIn # << >> =>
    LET sid == probeIn[1]
        blocks == probeOut[1]
        events == GetSessionEvents(World, sid)
    IN /\ Len(blocks) = Len(events) + 1
       /\ \A k \in 1..Len(events) :
            /\ blocks[k + 1].time[2] \in 0..59
            /\ blocks[k + 1].time[3] \in 0..999
            /\ HeadingMillis(blocks[k + 1].time)
                 = events[k].capturedAt - sessions[sid].startedAt

=============================================================================
